---- MODULE Spec2Model ----
(***************************************************************************)
(* Model of the recognition pipeline of orcapp (src-tauri):                *)
(*   commands/recognition.rs  recognize / cancel_recognition (session      *)
(*                            controller, one shared abort-handle slot)    *)
(*   services/llm.rs          recognize (orchestrator)                     *)
(*   services/openai.rs       call_openai                                  *)
(*   services/anthropic.rs    call_anthropic                               *)
(*                                                                         *)
(* Every recognize command is a process with a program counter; the unit   *)
(* of work it spawns (tokio::spawn) is a second process whose steps run    *)
(* from one suspension point (.await on the network) to the next.          *)
(* AbortHandle::abort marks the task; a marked task that is not yet        *)
(* finished is dropped the next time it would be polled, and abort on a    *)
(* finished task does nothing.                                             *)
(***************************************************************************)
EXTENDS Naturals, Integers, Sequences, FiniteSets, TLC

\* ------------------------------------------------------------------ bounds
\* number of text deltas a response stream carries at most
MaxDeltas == 2
\* how long an adapter call is followed, in units of time
MaxTime == 1
\* largest byte budget (max_size_bytes) an image is prepared for; sizes of
\* images and encodings range up to one byte more
MaxBytes == 2
\* longest API key, in characters, that mask_api_key is applied to
MaxKeyChars == 9
MaxConfigs == 3

\* number of callers of the recognize command, i.e. of invocations that can
\* be in progress at the same time
NumInv == 2

\* The callers: each issues one invocation after another, and the invocations
\* of different callers overlap in any way. The number of invocations and of
\* cancel_recognition commands is not bounded.
Inv == 1..NumInv

\* ----------------------------------------------------------- Option<T>
NoneV == <<>>
Some(x) == <<x>>
IsSome(o) == o # <<>>

\* ------------------------------------------------- message literals
\* recognition.rs:99  "识别已取消"
ErrCancelled == "E_CANCELLED"
\* recognition.rs:105 "识别任务失败: {e}"
ErrTaskFailed == "E_TASK_FAILED"
\* recognition.rs:127 "No active recognition to cancel"
ErrNoActive == "E_NO_ACTIVE_RECOGNITION"
\* recognition.rs:41  settings error, e.to_string()
ErrSettings == "E_SETTINGS"
\* recognition.rs:47  "图片处理失败: {e}"
ErrImage == "E_IMAGE_PROCESSING"
\* llm.rs:61 "配置不存在"
ErrConfigNotFound == "E_CONFIG_NOT_FOUND"
\* llm.rs:71 "获取配置失败: {e}"
ErrConfigLookup == "E_CONFIG_LOOKUP"
\* llm.rs:83 "该配置已禁用"
ErrConfigInactive == "E_CONFIG_INACTIVE"
\* llm.rs:109 "不支持的供应商类型: {provider}"
ErrUnsupported(provider) == "E_UNSUPPORTED_PROVIDER: " \o provider
\* openai.rs:20, anthropic.rs:20 "Image data is empty"
ErrEmptyImage == "E_EMPTY_IMAGE"
\* openai.rs:171, anthropic.rs:183 "解析响应失败: {e}"
ErrParse == "E_PARSE_RESPONSE"
\* openai.rs:181, anthropic.rs:193 parse_error_message(status, body)
ErrStatus == "E_HTTP_STATUS"
\* openai.rs:194-200, anthropic.rs:206-212: the message of a failed send()
\* (timeout, connect or other), one value here
ErrTransport == "E_TRANSPORT"

\* the text of one streamed delta, and of a non-streamed answer
DeltaText == "t"
BodyText == "t"
\* start_time.elapsed().as_millis(), abstracted to one value
Millis == "ms"
\* a token count reported by the backend
Tokens == "n"

\* ------------------------------------------------------ RecognitionResult
\* mutant of FailResult: a failure that also carries an (empty) content
FailResult_WithContent(err, dur) ==
  [success |-> FALSE, content |-> Some(""), error |-> Some(err),
   tokens_used |-> NoneV, duration_ms |-> dur, processed_image |-> NoneV]

\* a failure result: error populated, content and token usage absent
FailResult(err, dur) ==
  [success |-> FALSE, content |-> NoneV, error |-> Some(err),
   tokens_used |-> NoneV, duration_ms |-> dur, processed_image |-> NoneV]

\* a success result of an adapter: content populated, error absent
SuccessResult(content, tokens) ==
  [success |-> TRUE, content |-> Some(content), error |-> NoneV,
   tokens_used |-> tokens, duration_ms |-> Some(Millis), processed_image |-> NoneV]

\* the result recognize synthesizes for an aborted task
CancelledResult ==
  [success |-> FALSE, content |-> NoneV, error |-> Some(ErrCancelled),
   tokens_used |-> NoneV, duration_ms |-> NoneV, processed_image |-> NoneV]

\* Result<T, String> of a command; Pending before it is set
Pending == [ok |-> NoneV, err |-> NoneV]
Ok(r) == [ok |-> Some(r), err |-> NoneV]
Err(e) == [ok |-> NoneV, err |-> Some(e)]

\* ------------------------------------------------------------ the inputs
\* what process_image_for_api can hand back: an empty payload (auto-compress
\* off, empty input), the input unchanged, or a re-encoded payload
ProcessedImages ==
  { [base64 |-> "", was_compressed |-> FALSE, mime_type |-> "image/jpeg"],
    [base64 |-> "orig", was_compressed |-> FALSE, mime_type |-> "image/png"],
    [base64 |-> "comp", was_compressed |-> TRUE, mime_type |-> "image/jpeg"] }
NoImage == [base64 |-> "", was_compressed |-> FALSE, mime_type |-> "image/jpeg"]

\* format!("data:{};base64,{}", image_mime_type, image_base64)
DataUri(image_mime_type, image_base64) ==
  "data:" \o image_mime_type \o ";base64," \o image_base64

\* call_anthropic's media_type: the four known types, image/jpeg otherwise
media_type(image_mime_type) ==
  IF image_mime_type \in {"image/jpeg", "image/png", "image/gif", "image/webp"}
    THEN image_mime_type ELSE "image/jpeg"

\* the media type and the bytes of the image the request carries: call_openai
\* sends them in the data url of an image_url part, call_anthropic as the
\* media_type and data of a base64 source
ImageSent(ad, image_mime_type, image_base64) ==
  [media_type |-> IF ad = "openai" THEN image_mime_type
                  ELSE media_type(image_mime_type),
   data |-> image_base64]

\* provider strings a stored configuration can carry (the column is free text)
Providers ==
  {"openai", "azure", "oneapi", "custom", "anthropic", "unsupported-x", "OpenAI"}

\* outcome of get_config_by_id: Ok(None), Err(e), or Ok(Some(config)) with the
\* configuration's is_active flag and provider string
ConfigLookups ==
  { [lookup |-> l, is_active |-> FALSE, provider |-> ""] : l \in {"missing", "error"} }
    \cup { [lookup |-> "found", is_active |-> a, provider |-> p] :
              a \in BOOLEAN, p \in Providers }

\* mutant of AdapterOf: "custom" is not part of the mapping
AdapterOf_NoCustom(provider) ==
  CASE provider \in {"openai", "azure", "oneapi"} -> "openai"
    [] provider = "anthropic" -> "anthropic"
    [] OTHER -> "none"

\* the adapter selected for a provider string
AdapterOf(provider) ==
  CASE provider \in {"openai", "azure", "oneapi", "custom"} -> "openai"
    [] provider = "anthropic" -> "anthropic"
    [] OTHER -> "none"

\* options.stream.unwrap_or(false) && callback.is_some()
IsStreaming(stream, has_callback) == stream /\ has_callback

\* mutant of ConfigResult: a failed lookup is reported as a missing configuration
ConfigResult_LookupAsMissing(cfg) ==
  CASE cfg.lookup = "missing" -> Some(FailResult(ErrConfigNotFound, NoneV))
    [] cfg.lookup = "error" -> Some(FailResult(ErrConfigNotFound, NoneV))
    [] OTHER -> IF ~cfg.is_active THEN Some(FailResult(ErrConfigInactive, NoneV))
                ELSE NoneV

\* mutant of ConfigResult: the provider is looked at before the is_active flag
ConfigResult_ProviderFirst(cfg) ==
  CASE cfg.lookup = "missing" -> Some(FailResult(ErrConfigNotFound, NoneV))
    [] cfg.lookup = "error" -> Some(FailResult(ErrConfigLookup, NoneV))
    [] OTHER -> IF AdapterOf(cfg.provider) = "none" THEN NoneV
                ELSE IF ~cfg.is_active THEN Some(FailResult(ErrConfigInactive, NoneV))
                ELSE NoneV

\* llm::recognize up to the provider match: the result of its early returns
\* (no configuration, lookup error, inactive configuration), or NoneV
ConfigResult(cfg) ==
  CASE cfg.lookup = "missing" -> Some(FailResult(ErrConfigNotFound, NoneV))
    [] cfg.lookup = "error" -> Some(FailResult(ErrConfigLookup, NoneV))
    [] OTHER -> IF ~cfg.is_active THEN Some(FailResult(ErrConfigInactive, NoneV))
                ELSE NoneV

\* the provider match and the adapter up to the network call: the result
\* produced without any network call (unsupported provider, empty image), or
\* NoneV when the request is sent
DispatchResult(provider, base64) ==
  IF AdapterOf(provider) = "none"
    THEN Some(FailResult(ErrUnsupported(provider), NoneV))
    ELSE IF base64 = "" THEN Some(FailResult(ErrEmptyImage, NoneV))
    ELSE NoneV

\* llm::recognize and the adapter up to the network call: the result returned
\* without any network call, or NoneV when the request is sent
PreflightResult(cfg, base64) ==
  IF IsSome(ConfigResult(cfg)) THEN ConfigResult(cfg)
  ELSE DispatchResult(cfg.provider, base64)

\* --------------------------------------------------------------- state
VARIABLES
  pc,            \* recognize command i: idle, spawned, awaiting, joined, returned
  processed,     \* its ProcessedImage (base64, was_compressed)
  result,        \* its local `result`, the value it returns
  slot,          \* RecognitionState.abort_handle: 0 is None, i the handle of task i
  tstate,        \* task i: none, ready, send, stream, json, text, done, cancelled, panicked
  adapter,       \* task i: the adapter whose request is in flight
  is_streaming,  \* task i: the adapter's is_streaming flag
  full_content,  \* task i: the streaming accumulator
  adapterOut,    \* task i: llm::recognize's local `result` (provider match)
  taskOut,       \* task i: the RecognitionResult it finished with
  netCalls,      \* requests sent (send()) by the invocation of i
  sentImage,     \* the image in the request sent by the invocation of i
  history,       \* rows the invocation of i inserted into recognition_history
  abortReq,      \* abort() was called on the handle of task i
  emitted,       \* "recognition-stream" events emitted for the invocation of i
  histAttempts,  \* create_history_record calls made by the invocation of i
  cancelRet,     \* what the latest cancel_recognition returned
  \* one adapter call on its own (call_openai / call_anthropic):
  w_pc,          \* idle, send, stream, returned
  w_adapter,     \* which adapter is called
  request_body,  \* the JSON body handed to send()
  w_is_streaming,\* the adapter's is_streaming flag
  answer,        \* the text deltas the backend answers with
  wire,          \* the bytes of the response stream
  pos,           \* how many of them have arrived
  read_failed,   \* a read of the stream returned an error
  w_locals,      \* the streaming path's buffer, full_content and callback calls
  w_result,      \* the RecognitionResult the adapter returned
  w_now,         \* time elapsed since the adapter took start_time
  w_duration_ms, \* the adapter's local duration_ms
  \* one call of process_image_for_api on its own:
  p_input,       \* its arguments, NoneV before the call
  p_attempts,    \* the encodings compress_image produced, in order
  p_img,         \* the image handed to compress_image
  p_result,      \* what it returned
  \* one call of mask_api_key on its own:
  m_key,         \* its argument, NoneV before the call
  m_masked,      \* what it returned
  \* the model_configs table and the calls made on it:
  configs,       \* is_default of each stored row, by id
  next_id,       \* the id the next INSERT gets (AUTOINCREMENT)
  c_call,        \* the latest call on the table
  c_ret          \* what it returned

wireVars == <<w_pc, w_adapter, request_body, w_is_streaming, answer, wire, pos,
              read_failed, w_locals, w_result, w_now, w_duration_ms>>
prepVars == <<p_input, p_attempts, p_result, p_img>>
maskVars == <<m_key, m_masked>>
configVars == <<configs, next_id, c_call, c_ret>>
pureVars == <<prepVars, maskVars, configVars>>

vars == <<pc, processed, result, slot, tstate, adapter, is_streaming,
          full_content, adapterOut, taskOut, netCalls, sentImage, history, abortReq,
          emitted, histAttempts, cancelRet, wireVars, pureVars>>

cmdVars == <<pc, processed, result, slot>>
taskVars == <<tstate, adapter, is_streaming, full_content, adapterOut, taskOut,
              netCalls, sentImage, history, emitted, histAttempts>>
cancelVars == <<abortReq, cancelRet>>
sessionVars == <<cmdVars, taskVars, cancelVars>>

NoResult == NoneV

\* the locals of the streaming path when the loop over the stream starts
StreamStart ==
  [buffer |-> "", full_content |-> "", callbacks |-> <<>>, panicked |-> FALSE]
Terminal == {"done", "cancelled", "panicked"}
Suspended == {"ready", "send", "stream", "json", "text"}

\* the command has spawned its unit of work and has not returned
Active(i) == pc[i] \in {"spawned", "awaiting", "joined"}

Init ==
  /\ pc = [i \in Inv |-> "idle"]
  /\ processed = [i \in Inv |-> NoImage]
  /\ result = [i \in Inv |-> Pending]
  /\ slot = 0
  /\ tstate = [i \in Inv |-> "none"]
  /\ adapter = [i \in Inv |-> "none"]
  /\ is_streaming = [i \in Inv |-> FALSE]
  /\ full_content = [i \in Inv |-> ""]
  /\ adapterOut = [i \in Inv |-> NoResult]
  /\ taskOut = [i \in Inv |-> NoResult]
  /\ netCalls = [i \in Inv |-> 0]
  /\ sentImage = [i \in Inv |-> NoneV]
  /\ history = [i \in Inv |-> <<>>]
  /\ abortReq = [i \in Inv |-> FALSE]
  /\ emitted = [i \in Inv |-> <<>>]
  /\ histAttempts = [i \in Inv |-> 0]
  /\ cancelRet = Pending
  /\ w_pc = "idle"
  /\ w_adapter = "none"
  /\ request_body = NoneV
  /\ w_is_streaming = FALSE
  /\ answer = <<>>
  /\ wire = ""
  /\ pos = 0
  /\ read_failed = FALSE
  /\ w_locals = StreamStart
  /\ w_result = NoResult
  /\ w_now = 0
  /\ w_duration_ms = 0
  /\ p_input = NoneV
  /\ p_attempts = <<>>
  /\ p_img = NoneV
  /\ p_result = Pending
  /\ m_key = NoneV
  /\ m_masked = Pending
  /\ configs = <<>>
  /\ next_id = 1
  /\ c_call = NoneV
  /\ c_ret = Pending

\* ------------------------------------------------- the unit of work
\* the task's locals once it has left the adapter
DropLocals(i) ==
  /\ adapter' = [adapter EXCEPT ![i] = "none"]
  /\ is_streaming' = [is_streaming EXCEPT ![i] = FALSE]
  /\ full_content' = [full_content EXCEPT ![i] = ""]

\* mutant of HistoryRow: the thumbnail is made of the caller's image
HistoryRow_CallersImage(proc, r) ==
  [image_thumbnail |-> DataUri("image/png", "orig"),
   result |-> IF IsSome(r.content) THEN r.content[1] ELSE ""]

\* the row create_history_record inserts for result r of the image sent
HistoryRow(proc, r) ==
  [image_thumbnail |-> DataUri(proc.mime_type, proc.base64),
   result |-> IF IsSome(r.content) THEN r.content[1] ELSE ""]

\* an early return of llm::recognize (llm.rs:57-88): the history code is not
\* reached
EarlyReturn(i, r) ==
  /\ tstate' = [tstate EXCEPT ![i] = "done"]
  /\ taskOut' = [taskOut EXCEPT ![i] = Some(r)]
  /\ DropLocals(i)
  /\ UNCHANGED <<adapterOut, histAttempts, history>>

\* mutant of OrchestratorReturn: the history write is attempted for every result
OrchestratorReturn_AlwaysWrites(i, r, hist_ok) ==
  /\ tstate' = [tstate EXCEPT ![i] = "done"]
  /\ adapterOut' = [adapterOut EXCEPT ![i] = Some(r)]
  /\ taskOut' = [taskOut EXCEPT ![i] = Some(r)]
  /\ DropLocals(i)
  /\ histAttempts' = [histAttempts EXCEPT ![i] = @ + 1]
  /\ history' = [history EXCEPT ![i] =
                   IF hist_ok THEN Append(@, HistoryRow(processed[i], r)) ELSE @]

\* mutant of OrchestratorReturn: a failed history write is propagated (`?`)
OrchestratorReturn_WriteErrorFails(i, r, hist_ok) ==
  /\ tstate' = [tstate EXCEPT ![i] = "done"]
  /\ adapterOut' = [adapterOut EXCEPT ![i] = Some(r)]
  /\ taskOut' = [taskOut EXCEPT ![i] =
                   IF r.success /\ ~hist_ok
                     THEN Some(FailResult(ErrTransport, r.duration_ms))
                     ELSE Some(r)]
  /\ DropLocals(i)
  /\ histAttempts' = [histAttempts EXCEPT ![i] = IF r.success THEN @ + 1 ELSE @]
  /\ history' = [history EXCEPT ![i] =
                   IF r.success /\ hist_ok
                     THEN Append(@, HistoryRow(processed[i], r)) ELSE @]

\* llm::recognize, from the provider match's result r to its own return: one
\* history write for a successful result (hist_ok: whether the insert
\* succeeded; its Result is dropped by `let _ =`), then the task is done. No
\* suspension point lies between the adapter's return and this.
OrchestratorReturn(i, r, hist_ok) ==
  /\ tstate' = [tstate EXCEPT ![i] = "done"]
  /\ adapterOut' = [adapterOut EXCEPT ![i] = Some(r)]
  /\ taskOut' = [taskOut EXCEPT ![i] = Some(r)]
  /\ DropLocals(i)
  /\ histAttempts' = [histAttempts EXCEPT ![i] = IF r.success THEN @ + 1 ELSE @]
  /\ history' = [history EXCEPT ![i] =
                   IF r.success /\ hist_ok
                     THEN Append(@, HistoryRow(processed[i], r)) ELSE @]

\* llm::recognize returns after the provider match gave r; the insert, when
\* one is attempted, succeeds or fails
Returns(i, r) ==
  \E hist_ok \in (IF r.success THEN BOOLEAN ELSE {TRUE}) :
    OrchestratorReturn(i, r, hist_ok)

\* a task may be polled: it is not finished and no abort is pending on it
Pollable(i) == tstate[i] \in Suspended /\ ~abortReq[i]

\* first poll of the task for configuration lookup cfg and options.stream:
\* llm::recognize up to the adapter's send().await, or to its return when no
\* network call is made
TaskStartWith(i, cfg, stream) ==
  /\ tstate[i] = "ready"
  /\ Pollable(i)
  /\ LET early == PreflightResult(cfg, processed[i].base64) IN
     IF IsSome(early)
       THEN /\ IF IsSome(ConfigResult(cfg))
                 THEN EarlyReturn(i, early[1])
                 ELSE Returns(i, early[1])
            /\ UNCHANGED <<netCalls, sentImage>>
       ELSE /\ tstate' = [tstate EXCEPT ![i] = "send"]
            /\ adapter' = [adapter EXCEPT ![i] = AdapterOf(cfg.provider)]
            /\ is_streaming' = [is_streaming EXCEPT ![i] = IsStreaming(stream, TRUE)]
            /\ netCalls' = [netCalls EXCEPT ![i] = @ + 1]
            /\ sentImage' =
                 [sentImage EXCEPT ![i] =
                    Some(ImageSent(AdapterOf(cfg.provider),
                                   processed[i].mime_type, processed[i].base64))]
            /\ UNCHANGED <<full_content, adapterOut, taskOut, histAttempts, history>>
  /\ UNCHANGED <<emitted, cmdVars, cancelVars>>
  /\ UNCHANGED <<wireVars, pureVars>>

\* first poll of the task, for whatever configuration the id resolves to
TaskStart(i) ==
  \E cfg \in ConfigLookups, stream \in BOOLEAN : TaskStartWith(i, cfg, stream)

\* send().await resolves: transport error, non-success status, or success
TaskSendDone(i) ==
  /\ tstate[i] = "send"
  /\ Pollable(i)
  /\ \/ Returns(i, FailResult(ErrTransport, Some(Millis)))
     \/ /\ tstate' = [tstate EXCEPT ![i] = "text"]
        /\ DropLocals(i)
        /\ UNCHANGED <<adapterOut, taskOut, histAttempts, history>>
     \/ /\ is_streaming[i]
        /\ tstate' = [tstate EXCEPT ![i] = "stream"]
        /\ DropLocals(i)
        /\ UNCHANGED <<adapterOut, taskOut, histAttempts, history>>
     \/ /\ ~is_streaming[i]
        /\ tstate' = [tstate EXCEPT ![i] = "json"]
        /\ is_streaming' = is_streaming
        /\ UNCHANGED <<adapter, full_content, adapterOut, taskOut, histAttempts,
                       history>>
  /\ UNCHANGED <<netCalls, sentImage, emitted, cmdVars, cancelVars>>
  /\ UNCHANGED <<wireVars, pureVars>>

\* resp.text().await of a non-success status resolves
TaskErrorBody(i) ==
  /\ tstate[i] = "text"
  /\ Pollable(i)
  /\ Returns(i, FailResult(ErrStatus, Some(Millis)))
  /\ UNCHANGED <<netCalls, sentImage, emitted, cmdVars, cancelVars>>
  /\ UNCHANGED <<wireVars, pureVars>>

\* the token usage a non-streaming answer yields: OpenAI-style reads
\* usage.total_tokens (absent gives None); Anthropic-style always sums
NonStreamTokens(ad, has_usage) ==
  IF ad = "anthropic" THEN Some(Tokens)
  ELSE IF has_usage THEN Some(Tokens) ELSE NoneV

\* resp.json().await resolves: a parsed document or a parse error
TaskJsonBody(i) ==
  /\ tstate[i] = "json"
  /\ Pollable(i)
  /\ \/ \E has_usage \in BOOLEAN :
          Returns(i, SuccessResult(BodyText, NonStreamTokens(adapter[i], has_usage)))
     \/ Returns(i, FailResult(ErrParse, Some(Millis)))
  /\ UNCHANGED <<netCalls, sentImage, emitted, cmdVars, cancelVars>>
  /\ UNCHANGED <<wireVars, pureVars>>

\* stream.next().await yields an item: a failed read or a chunk completing no
\* delta event (nothing changes), or a chunk completing a delta event, which
\* is accumulated and forwarded to the callback
TaskChunk(i) ==
  /\ tstate[i] = "stream"
  /\ Pollable(i)
  /\ \/ UNCHANGED <<full_content, emitted>>
     \/ /\ Len(emitted[i]) < MaxDeltas
        /\ full_content' = [full_content EXCEPT ![i] = @ \o DeltaText]
        /\ emitted' = [emitted EXCEPT ![i] = Append(@, DeltaText)]
  /\ UNCHANGED <<tstate, adapter, is_streaming, adapterOut, taskOut, netCalls,
                 sentImage, history, histAttempts, cmdVars, cancelVars>>
  /\ UNCHANGED <<wireVars, pureVars>>

\* stream.next().await yields None: the rest of the buffer gets its parse
\* attempt (it may hold one more delta) and the adapter returns the accumulator
TaskStreamEnd(i) ==
  /\ tstate[i] = "stream"
  /\ Pollable(i)
  /\ \/ /\ Returns(i, SuccessResult(full_content[i], NoneV))
        /\ UNCHANGED emitted
     \/ /\ Len(emitted[i]) < MaxDeltas
        /\ Returns(i, SuccessResult(full_content[i] \o DeltaText, NoneV))
        /\ emitted' = [emitted EXCEPT ![i] = Append(@, DeltaText)]
  /\ UNCHANGED <<netCalls, sentImage, cmdVars, cancelVars>>
  /\ UNCHANGED <<wireVars, pureVars>>


\* mutant of TaskCancelled: an abort also takes effect on a finished task
TaskCancelled_AfterDone(i) ==
  /\ tstate[i] \in Suspended \cup {"done"}
  /\ abortReq[i]
  /\ tstate' = [tstate EXCEPT ![i] = "cancelled"]
  /\ DropLocals(i)
  /\ UNCHANGED <<adapterOut, taskOut, netCalls, sentImage, history, emitted,
                 histAttempts, cmdVars, cancelVars>>
  /\ UNCHANGED <<wireVars, pureVars>>

\* the runtime drops a task on which abort() was called before it finished:
\* its future never runs again and its JoinHandle resolves cancelled
TaskCancelled(i) ==
  /\ tstate[i] \in Suspended
  /\ abortReq[i]
  /\ tstate' = [tstate EXCEPT ![i] = "cancelled"]
  /\ DropLocals(i)
  /\ UNCHANGED <<adapterOut, taskOut, netCalls, sentImage, history, emitted,
                 histAttempts, cmdVars, cancelVars>>
  /\ UNCHANGED <<wireVars, pureVars>>

\* the task panics while polled (e.g. Client::builder().build().unwrap())
TaskPanic(i) ==
  /\ Pollable(i)
  /\ tstate' = [tstate EXCEPT ![i] = "panicked"]
  /\ DropLocals(i)
  /\ UNCHANGED <<adapterOut, taskOut, netCalls, sentImage, history, emitted,
                 histAttempts, cmdVars, cancelVars>>
  /\ UNCHANGED <<wireVars, pureVars>>

\* mutant of RecognizeStart: a failure before the spawn clears the slot
RecognizeStart_ClearsSlotOnError(i) ==
  /\ pc[i] \in {"idle", "returned"}
  /\ \/ /\ \E e \in {ErrSettings, ErrImage} :
             result' = [result EXCEPT ![i] = Err(e)]
        /\ pc' = [pc EXCEPT ![i] = "returned"]
        /\ slot' = 0
        /\ UNCHANGED <<processed, tstate>>
     \/ /\ \E p \in ProcessedImages :
             processed' = [processed EXCEPT ![i] = p]
        /\ pc' = [pc EXCEPT ![i] = "spawned"]
        /\ tstate' = [tstate EXCEPT ![i] = "ready"]
        /\ result' = [result EXCEPT ![i] = Pending]
        /\ UNCHANGED slot
  /\ emitted' = [emitted EXCEPT ![i] = <<>>]
  /\ histAttempts' = [histAttempts EXCEPT ![i] = 0]
  /\ netCalls' = [netCalls EXCEPT ![i] = 0]
  /\ sentImage' = [sentImage EXCEPT ![i] = NoneV]
  /\ history' = [history EXCEPT ![i] = <<>>]
  /\ UNCHANGED <<adapter, is_streaming, full_content, adapterOut, taskOut,
                 abortReq, cancelRet>>
  /\ UNCHANGED <<wireVars, pureVars>>

\* ------------------------------------------------- the recognize command
\* A new invocation by caller i (whose previous one, if any, has returned):
\* settings and image preparation, then tokio::spawn of the unit of work.
\* A failure of either returns the error before anything is spawned.
RecognizeStart(i) ==
  /\ pc[i] \in {"idle", "returned"}
  /\ \/ /\ \E e \in {ErrSettings, ErrImage} :
             result' = [result EXCEPT ![i] = Err(e)]
        /\ pc' = [pc EXCEPT ![i] = "returned"]
        /\ UNCHANGED <<processed, tstate>>
     \/ /\ \E p \in ProcessedImages :
             processed' = [processed EXCEPT ![i] = p]
        /\ pc' = [pc EXCEPT ![i] = "spawned"]
        /\ tstate' = [tstate EXCEPT ![i] = "ready"]
        /\ result' = [result EXCEPT ![i] = Pending]
  /\ emitted' = [emitted EXCEPT ![i] = <<>>]
  /\ histAttempts' = [histAttempts EXCEPT ![i] = 0]
  /\ netCalls' = [netCalls EXCEPT ![i] = 0]
  /\ sentImage' = [sentImage EXCEPT ![i] = NoneV]
  /\ history' = [history EXCEPT ![i] = <<>>]
  /\ UNCHANGED <<slot, adapter, is_streaming, full_content, adapterOut, taskOut,
                 abortReq, cancelRet>>
  /\ UNCHANGED <<wireVars, pureVars>>

\* state.lock().await; abort_handle = Some(task.abort_handle())
StoreHandle(i) ==
  /\ pc[i] = "spawned"
  /\ slot' = i
  /\ pc' = [pc EXCEPT ![i] = "awaiting"]
  /\ UNCHANGED <<processed, result, taskVars, cancelVars>>
  /\ UNCHANGED <<wireVars, pureVars>>

\* mutant of JoinResult: the processed image is attached to every completed
\* result, compressed or not
JoinResult_AlwaysImage(st, out, proc) ==
  CASE st = "done" -> Ok([out[1] EXCEPT !.processed_image = Some(proc.base64)])
    [] st = "cancelled" -> Ok(CancelledResult)
    [] OTHER -> Err(ErrTaskFailed)

\* the match on task.await: the task's result (with the processed image
\* when compression happened), the cancellation result, or the fault error
JoinResult(st, out, proc) ==
  CASE st = "done" ->
         Ok(IF proc.was_compressed
              THEN [out[1] EXCEPT !.processed_image = Some(proc.base64)]
              ELSE out[1])
    [] st = "cancelled" -> Ok(CancelledResult)
    [] OTHER -> Err(ErrTaskFailed)

\* mutant of AwaitTask: a task fault is propagated at once (task.await?),
\* skipping the clearing of the slot
AwaitTask_FaultReturnsEarly(i) ==
  /\ pc[i] = "awaiting"
  /\ tstate[i] \in Terminal
  /\ result' = [result EXCEPT ![i] = JoinResult(tstate[i], taskOut[i], processed[i])]
  /\ pc' = [pc EXCEPT ![i] = IF tstate[i] = "panicked" THEN "returned" ELSE "joined"]
  /\ UNCHANGED <<processed, slot, taskVars, cancelVars>>
  /\ UNCHANGED <<wireVars, pureVars>>

\* mutant of AwaitTask: the command does not wait for the unit of work to
\* end; it reports an unfinished task as cancelled
AwaitTask_NoWait(i) ==
  /\ pc[i] = "awaiting"
  /\ result' = [result EXCEPT ![i] =
                  IF tstate[i] \in Terminal
                    THEN JoinResult(tstate[i], taskOut[i], processed[i])
                    ELSE Ok(CancelledResult)]
  /\ pc' = [pc EXCEPT ![i] = "joined"]
  /\ UNCHANGED <<processed, slot, taskVars, cancelVars>>
  /\ UNCHANGED <<wireVars, pureVars>>

\* task.await resolves once the task is finished, dropped or has panicked
AwaitTask(i) ==
  /\ pc[i] = "awaiting"
  /\ tstate[i] \in Terminal
  /\ result' = [result EXCEPT ![i] = JoinResult(tstate[i], taskOut[i], processed[i])]
  /\ pc' = [pc EXCEPT ![i] = "joined"]
  /\ UNCHANGED <<processed, slot, taskVars, cancelVars>>
  /\ UNCHANGED <<wireVars, pureVars>>

\* mutant of ClearHandle: the cancellation branch returns without clearing
ClearHandle_SkipOnCancel(i) ==
  /\ pc[i] = "joined"
  /\ slot' = IF result[i] = Ok(CancelledResult) THEN slot ELSE 0
  /\ pc' = [pc EXCEPT ![i] = "returned"]
  /\ processed' = [processed EXCEPT ![i] = NoImage]
  /\ adapterOut' = [adapterOut EXCEPT ![i] = NoResult]
  /\ taskOut' = [taskOut EXCEPT ![i] = NoResult]
  /\ tstate' = [tstate EXCEPT ![i] = "none"]
  /\ abortReq' = [abortReq EXCEPT ![i] = FALSE]
  /\ UNCHANGED <<result, adapter, is_streaming, full_content, netCalls, sentImage, history,
                 emitted, histAttempts, cancelRet>>
  /\ UNCHANGED <<wireVars, pureVars>>

\* state.lock().await; abort_handle = None; then `result` is returned and
\* the command's locals (the image, the JoinHandle and with it the task) are gone
ClearHandle(i) ==
  /\ pc[i] = "joined"
  /\ slot' = 0
  /\ pc' = [pc EXCEPT ![i] = "returned"]
  /\ processed' = [processed EXCEPT ![i] = NoImage]
  /\ adapterOut' = [adapterOut EXCEPT ![i] = NoResult]
  /\ taskOut' = [taskOut EXCEPT ![i] = NoResult]
  /\ tstate' = [tstate EXCEPT ![i] = "none"]
  /\ abortReq' = [abortReq EXCEPT ![i] = FALSE]
  /\ UNCHANGED <<result, adapter, is_streaming, full_content, netCalls, sentImage, history,
                 emitted, histAttempts, cancelRet>>
  /\ UNCHANGED <<wireVars, pureVars>>

\* ---------------------------------------------- the cancel_recognition command
\* mutant of CancelReturn: success is reported whatever the slot holds
CancelReturn_AlwaysOk(h) == Ok("unit")

\* what cancel_recognition returns for the slot value it reads
CancelReturn(h) == IF h # 0 THEN Ok("unit") ELSE Err(ErrNoActive)

\* mutant of cancel_recognition: it waits until the task whose handle is
\* stored has ended before it returns
cancel_recognition_JoinsTask ==
  /\ slot # 0 => tstate[slot] \in Terminal
  /\ cancelRet' = CancelReturn(slot)
  /\ abortReq' = IF slot # 0 THEN [abortReq EXCEPT ![slot] = TRUE] ELSE abortReq
  /\ UNCHANGED <<cmdVars, taskVars>>
  /\ UNCHANGED <<wireVars, pureVars>>

\* state.lock().await; handle.abort() if a handle is stored. abort() on a
\* finished task has no effect (TaskCancelled needs an unfinished task).
cancel_recognition ==
  /\ cancelRet' = CancelReturn(slot)
  /\ abortReq' = IF slot # 0 THEN [abortReq EXCEPT ![slot] = TRUE] ELSE abortReq
  /\ UNCHANGED <<cmdVars, taskVars>>
  /\ UNCHANGED <<wireVars, pureVars>>

\* ----------------------------------------------------------- the system
Next ==
  \/ \E i \in Inv : RecognizeStart(i)
  \/ \E i \in Inv : StoreHandle(i)
  \/ \E i \in Inv : AwaitTask(i)
  \/ \E i \in Inv : ClearHandle(i)
  \/ cancel_recognition
  \/ \E i \in Inv : TaskStart(i)
  \/ \E i \in Inv : TaskSendDone(i)
  \/ \E i \in Inv : TaskErrorBody(i)
  \/ \E i \in Inv : TaskJsonBody(i)
  \/ \E i \in Inv : TaskChunk(i)
  \/ \E i \in Inv : TaskStreamEnd(i)
  \/ \E i \in Inv : TaskCancelled(i)
  \/ \E i \in Inv : TaskPanic(i)

Spec == Init /\ [][Next]_vars

\* one caller alone: its invocations follow one another, cancel_recognition
\* commands arrive at any time
NextCall ==
  \E i \in {1} :
    \/ RecognizeStart(i)
    \/ StoreHandle(i)
    \/ AwaitTask(i)
    \/ ClearHandle(i)
    \/ cancel_recognition
    \/ TaskStart(i)
    \/ TaskSendDone(i)
    \/ TaskErrorBody(i)
    \/ TaskJsonBody(i)
    \/ TaskChunk(i)
    \/ TaskStreamEnd(i)
    \/ TaskCancelled(i)
    \/ TaskPanic(i)

SpecCall == Init /\ [][NextCall]_vars


\* ================================================== one adapter call
\* call_openai / call_anthropic on their own, with the bytes of the response:
\* the request body, the choice of the streaming path, the line reassembly
\* over the chunks of the response stream, and the non-streaming parse.
\*
\* A byte string is a string of one-byte characters. Lead followed by Cont is
\* the UTF-8 encoding of one two-byte character; in decoded text the same pair
\* stands for that character and Repl for U+FFFD.
Lead == "^"
Cont == "~"
Repl == "?"
NL == "\n"

\* the rest of s from position k on
From(s, k) == SubSeq(s, k, Len(s))

\* String::from_utf8_lossy(&chunk): every byte that is not part of a complete
\* character inside this chunk becomes U+FFFD
RECURSIVE from_utf8_lossy(_)
from_utf8_lossy(bytes) ==
  IF bytes = "" THEN ""
  ELSE IF SubSeq(bytes, 1, 1) = Lead
    THEN IF Len(bytes) >= 2 /\ SubSeq(bytes, 2, 2) = Cont
           THEN Lead \o Cont \o from_utf8_lossy(From(bytes, 3))
           ELSE Repl \o from_utf8_lossy(From(bytes, 2))
  ELSE IF SubSeq(bytes, 1, 1) = Cont
    THEN Repl \o from_utf8_lossy(From(bytes, 2))
  ELSE SubSeq(bytes, 1, 1) \o from_utf8_lossy(From(bytes, 2))

\* buffer.find('\n'): the position of the first newline, 0 for None
Find(s, ch) ==
  IF \E k \in 1..Len(s) : SubSeq(s, k, k) = ch
    THEN CHOOSE k \in 1..Len(s) :
           /\ SubSeq(s, k, k) = ch
           /\ \A j \in 1..(k - 1) : SubSeq(s, j, j) # ch
    ELSE 0

Whitespace == {" ", "\t", "\r", "\n"}

\* str::trim_start
RECURSIVE trim_start(_)
trim_start(s) ==
  IF s # "" /\ SubSeq(s, 1, 1) \in Whitespace THEN trim_start(From(s, 2)) ELSE s

\* str::trim_end
RECURSIVE trim_end(_)
trim_end(s) ==
  IF s # "" /\ SubSeq(s, Len(s), Len(s)) \in Whitespace
    THEN trim_end(SubSeq(s, 1, Len(s) - 1)) ELSE s

\* str::trim
trim(s) == trim_end(trim_start(s))

\* str::starts_with
starts_with(s, prefix) ==
  Len(s) >= Len(prefix) /\ SubSeq(s, 1, Len(prefix)) = prefix

\* The JSON document of an event, in short: "{" text "}" is an event that
\* carries the text delta `text` (choices[0].delta.content for the
\* OpenAI-style adapter, a content_block_delta with a text_delta for the
\* Anthropic-style one); "#" is a valid document without a text delta; any
\* other string fails to decode. The text a document yields, NoneV for none:
EventText(data_str) ==
  IF Len(data_str) >= 2 /\ SubSeq(data_str, 1, 1) = "{"
       /\ SubSeq(data_str, Len(data_str), Len(data_str)) = "}"
    THEN Some(SubSeq(data_str, 2, Len(data_str) - 1))
    ELSE NoneV

\* mutant of LineDelta: the end marker is forwarded as a delta
LineDelta_ForwardsDone(ad, line) ==
  IF ~starts_with(line, "data: ") THEN NoneV
  ELSE LET data_str == From(line, 7) IN
       IF data_str = "[DONE]" THEN Some("[DONE]")
       ELSE IF ad = "openai" /\ EventText(data_str) = Some("") THEN NoneV
       ELSE EventText(data_str)

\* one line of the stream, already trimmed: the delta it makes the adapter
\* accumulate and forward, NoneV for none
LineDelta(ad, line) ==
  IF ~starts_with(line, "data: ") THEN NoneV
  ELSE LET data_str == From(line, 7) IN
       IF ad = "openai"
         THEN IF data_str = "[DONE]" THEN NoneV
              ELSE IF EventText(data_str) = Some("") THEN NoneV
              ELSE EventText(data_str)
         ELSE EventText(data_str)

\* a content_block_delta event whose delta object has no "type" member
NoDeltaType == "%"

\* processing the line panics: call_anthropic indexes the delta object (a
\* serde_json Map, whose index operator panics on a missing key) by "type"
\* and by "text"; call_openai indexes Values only, which yield Null
LinePanics(ad, line) ==
  /\ ad = "anthropic"
  /\ starts_with(line, "data: ")
  /\ From(line, 7) = NoDeltaType

\* the adapter's streaming locals after `line` was processed
AfterLine(ad, st, line) ==
  LET d == LineDelta(ad, line) IN
  IF LinePanics(ad, line) THEN [st EXCEPT !.panicked = TRUE]
  ELSE IF IsSome(d)
    THEN [st EXCEPT !.full_content = @ \o d[1], !.callbacks = Append(@, d[1])]
    ELSE st

\* while let Some(idx) = buffer.find('\n'): every complete line of the buffer
\* is taken out and processed, the partial last line stays
RECURSIVE DrainLines(_, _)
DrainLines(ad, st) ==
  LET idx == Find(st.buffer, NL) IN
  IF idx = 0 \/ st.panicked THEN st
  ELSE DrainLines(ad,
         AfterLine(ad, [st EXCEPT !.buffer = From(st.buffer, idx + 1)],
                   trim(SubSeq(st.buffer, 1, idx - 1))))

\* the body of the loop over the stream for one chunk read without error
OnChunk(ad, st, chunk) ==
  DrainLines(ad, [st EXCEPT !.buffer = @ \o from_utf8_lossy(chunk)])

\* mutant of OnStreamEnd: what is left in the buffer is dropped
OnStreamEnd_DropsRest(ad, st) == st

\* after the loop: a non-empty rest of the buffer gets one parse attempt
OnStreamEnd(ad, st) ==
  IF st.buffer # "" THEN AfterLine(ad, st, trim(st.buffer)) ELSE st

\* the streaming locals after the whole of `bytes` arrived as one chunk
OneChunk(ad, bytes) ==
  LET st == IF bytes = "" THEN StreamStart ELSE OnChunk(ad, StreamStart, bytes)
  IN IF st.panicked THEN st ELSE OnStreamEnd(ad, st)

\* clean_response_content (openai.rs): trim_start, then leading "{{" / "}}"
\* pairs and leading single braces are removed, trimming after each
RECURSIVE StripBracePairs(_)
StripBracePairs(s) ==
  IF starts_with(s, "}}") \/ starts_with(s, "{{")
    THEN StripBracePairs(trim_start(From(s, 3))) ELSE s

RECURSIVE StripBraces(_)
StripBraces(s) ==
  IF starts_with(s, "}") \/ starts_with(s, "{")
    THEN StripBraces(trim_start(From(s, 2))) ELSE s

clean_response_content(content) ==
  StripBraces(StripBracePairs(trim_start(content)))

\* the content the non-streaming path takes from a decoded body whose answer
\* text is `text` (message.content, or the text of the first content block)
NonStreamContent(ad, text) ==
  IF ad = "openai" THEN clean_response_content(text) ELSE text

\* ---------------------------------------------- inputs of an adapter call
\* text deltas a backend answers with: empty, plain, with a two-byte
\* character, with leading blank and brace
DeltaTexts == {"", "Hel", "lo", Lead \o Cont, " {a"}

\* an answer: up to MaxDeltas text deltas
Answers == UNION { [1..n -> DeltaTexts] : n \in 0..MaxDeltas }

\* what follows the delta events on the wire: nothing, the OpenAI-style end
\* marker, an event without a text delta, or a content_block_delta event
\* whose delta object has no "type" member
Trailers ==
  {"", "data: [DONE]" \o NL \o NL, "event: x" \o NL \o "data: #" \o NL \o NL,
   "data: " \o NoDeltaType \o NL \o NL}

\* the answer's text as a whole
RECURSIVE Concat(_)
Concat(deltas) ==
  IF deltas = <<>> THEN "" ELSE Head(deltas) \o Concat(Tail(deltas))

\* the server-sent events of an answer: one data line per delta, each closed
\* by a blank line
RECURSIVE Encode(_)
Encode(deltas) ==
  IF deltas = <<>> THEN ""
  ELSE "data: {" \o Head(deltas) \o "}" \o NL \o NL \o Encode(Tail(deltas))

\* the bytes of a response stream; when not terminated, the newlines after
\* its last line are missing
WireOf(deltas, trailer, terminated) ==
  LET full == Encode(deltas) \o trailer IN
  IF terminated \/ full = "" THEN full ELSE SubSeq(full, 1, Len(full) - 2)

\* options extra-parameter objects (custom_params)
CustomParams ==
  {NoneV, Some([stream |-> TRUE]), Some([stream |-> FALSE]), Some([seed |-> "7"])}

\* RecognitionOptions
OptionsSet ==
  [temperature : {NoneV, Some("0.2")},
   top_p : {NoneV, Some("0.9")},
   max_tokens : {NoneV, Some("options.max_tokens")},
   stream : {NoneV, Some(FALSE), Some(TRUE)},
   custom_params : CustomParams]

\* Option::unwrap_or
UnwrapOr(o, default) == IF IsSome(o) THEN o[1] ELSE default

\* request_body[key] = value
Put(body, key, value) ==
  [k \in DOMAIN body \cup {key} |-> IF k = key THEN value ELSE body[k]]

\* for (key, value) in obj { request_body[key] = value.clone() }
Merge(body, obj) ==
  [k \in DOMAIN body \cup DOMAIN obj |-> IF k \in DOMAIN obj THEN obj[k] ELSE body[k]]

\* the request body an adapter builds: the stream flag is inserted first,
\* temperature and top_p when given; the OpenAI-style adapter then copies
\* every key of custom_params over it, the Anthropic-style one does not
RequestBody(ad, options, has_callback) ==
  LET b0 == [model |-> "config.model_name",
             messages |-> "image+prompt",
             max_tokens |-> UnwrapOr(options.max_tokens, "config.max_tokens"),
             stream |-> IsStreaming(UnwrapOr(options.stream, FALSE), has_callback)]
      b1 == IF IsSome(options.temperature)
              THEN Put(b0, "temperature", options.temperature[1]) ELSE b0
      b2 == IF IsSome(options.top_p) THEN Put(b1, "top_p", options.top_p[1]) ELSE b1
  IN IF ad = "openai" /\ IsSome(options.custom_params)
       THEN Merge(b2, options.custom_params[1]) ELSE b2

\* ------------------------------------------------ steps of an adapter call
\* the adapter returns r
AdapterReturn(r) ==
  /\ w_result' = Some(r)
  /\ w_pc' = "returned"
  /\ request_body' = NoneV

\* mutant of CallAdapterWith: no check for an empty image
CallAdapterWith_NoEmptyCheck(ad, image_base64, options, has_callback) ==
  /\ w_pc = "idle"
  /\ w_adapter' = ad
  /\ request_body' = Some(RequestBody(ad, options, has_callback))
  /\ w_is_streaming' = IsStreaming(UnwrapOr(options.stream, FALSE), has_callback)
  /\ w_pc' = "send"
  /\ UNCHANGED <<w_result, answer, wire, pos, read_failed, w_locals, w_now,
                 w_duration_ms, sessionVars, pureVars>>

\* call_openai / call_anthropic is entered with these arguments: start_time
\* is taken (time is counted from it), the empty-image check, then the
\* request body and the is_streaming flag, then send()
CallAdapterWith(ad, image_base64, options, has_callback) ==
  /\ w_pc = "idle"
  /\ IF image_base64 = ""
       THEN /\ AdapterReturn(FailResult(ErrEmptyImage, NoneV))
            /\ UNCHANGED <<w_adapter, w_is_streaming>>
       ELSE /\ w_adapter' = ad
            /\ request_body' = Some(RequestBody(ad, options, has_callback))
            /\ w_is_streaming' =
                 IsStreaming(UnwrapOr(options.stream, FALSE), has_callback)
            /\ w_pc' = "send"
            /\ UNCHANGED w_result
  /\ UNCHANGED <<answer, wire, pos, read_failed, w_locals, w_now, w_duration_ms,
                 sessionVars, pureVars>>

\* an adapter is called, with whatever arguments
CallAdapter ==
  \E ad \in {"openai", "anthropic"}, image_base64 \in {"", "img"},
     options \in OptionsSet, has_callback \in BOOLEAN :
    CallAdapterWith(ad, image_base64, options, has_callback)

\* time passes while the adapter is suspended at an await
TimePasses ==
  /\ w_pc \in {"send", "text", "json", "stream"}
  /\ w_now < MaxTime
  /\ w_now' = w_now + 1
  /\ UNCHANGED <<w_pc, w_adapter, request_body, w_is_streaming, answer, wire, pos,
                 read_failed, w_locals, w_result, w_duration_ms, sessionVars,
                 pureVars>>

\* mutant of SendFails: the transport error carries no duration
SendFails_NoDuration ==
  /\ w_pc = "send"
  /\ w_duration_ms' = w_now
  /\ AdapterReturn(FailResult(ErrTransport, NoneV))
  /\ UNCHANGED <<w_adapter, w_is_streaming, answer, wire, pos, read_failed,
                 w_locals, w_now, sessionVars, pureVars>>

\* send().await fails: duration_ms is taken, the transport error is returned
SendFails ==
  /\ w_pc = "send"
  /\ w_duration_ms' = w_now
  /\ AdapterReturn(FailResult(ErrTransport, Some(w_duration_ms')))
  /\ UNCHANGED <<w_adapter, w_is_streaming, answer, wire, pos, read_failed,
                 w_locals, w_now, sessionVars, pureVars>>

\* send().await gives a response with a non-success status: duration_ms is
\* taken, then resp.text() is awaited
StatusError ==
  /\ w_pc = "send"
  /\ w_duration_ms' = w_now
  /\ w_pc' = "text"
  /\ request_body' = NoneV
  /\ UNCHANGED <<w_adapter, w_is_streaming, answer, wire, pos, read_failed,
                 w_locals, w_result, w_now, sessionVars, pureVars>>

\* resp.text().await of a non-success status resolves
ErrorBody ==
  /\ w_pc = "text"
  /\ AdapterReturn(FailResult(ErrStatus, Some(w_duration_ms)))
  /\ UNCHANGED <<w_adapter, w_is_streaming, answer, wire, pos, read_failed,
                 w_locals, w_now, w_duration_ms, sessionVars, pureVars>>

\* send().await gives a success status on the non-streaming path:
\* duration_ms is taken, then resp.json() is awaited
JsonBegins ==
  /\ w_pc = "send"
  /\ ~w_is_streaming
  /\ w_duration_ms' = w_now
  /\ w_pc' = "json"
  /\ request_body' = NoneV
  /\ UNCHANGED <<w_adapter, w_is_streaming, answer, wire, pos, read_failed,
                 w_locals, w_result, w_now, sessionVars, pureVars>>

\* resp.json().await resolves: it decodes the body of an answer, or fails
JsonBody ==
  /\ w_pc = "json"
  /\ \/ \E ans \in Answers, has_usage \in BOOLEAN :
          /\ answer' = ans
          /\ AdapterReturn(
               [SuccessResult(NonStreamContent(w_adapter, Concat(ans)),
                              NonStreamTokens(w_adapter, has_usage))
                  EXCEPT !.duration_ms = Some(w_duration_ms)])
     \/ /\ AdapterReturn(FailResult(ErrParse, Some(w_duration_ms)))
        /\ UNCHANGED answer
  /\ UNCHANGED <<w_adapter, w_is_streaming, wire, pos, read_failed, w_locals,
                 w_now, w_duration_ms, sessionVars, pureVars>>

\* send().await gives a success status on the streaming path: duration_ms is
\* taken and the loop over resp.bytes_stream() starts; the backend's answer
\* and its bytes are fixed here
StreamBegins ==
  /\ w_pc = "send"
  /\ w_is_streaming
  /\ w_duration_ms' = w_now
  /\ \E ans \in Answers, trailer \in Trailers, terminated \in BOOLEAN :
       /\ answer' = ans
       /\ wire' = WireOf(ans, trailer, terminated)
  /\ pos' = 0
  /\ w_locals' = StreamStart
  /\ w_pc' = "stream"
  /\ request_body' = NoneV
  /\ UNCHANGED <<w_adapter, w_is_streaming, read_failed, w_result, w_now,
                 sessionVars, pureVars>>

\* stream.next().await yields Ok(chunk): the next bytes, in a chunk of any
\* size; a panic while a line is processed unwinds the call
NextChunk ==
  /\ w_pc = "stream"
  /\ ~read_failed
  /\ \E k \in 1..(Len(wire) - pos) :
       /\ w_locals' = OnChunk(w_adapter, w_locals, SubSeq(wire, pos + 1, pos + k))
       /\ pos' = pos + k
  /\ w_pc' = IF w_locals'.panicked THEN "panicked" ELSE "stream"
  /\ UNCHANGED <<w_adapter, request_body, w_is_streaming, answer, wire,
                 read_failed, w_result, w_now, w_duration_ms, sessionVars,
                 pureVars>>

\* stream.next().await yields Err: the item is skipped; the bytes that had not
\* arrived never do
ReadError ==
  /\ w_pc = "stream"
  /\ ~read_failed
  /\ read_failed' = TRUE
  /\ UNCHANGED <<w_pc, w_adapter, request_body, w_is_streaming, answer, wire, pos,
                 w_locals, w_result, w_now, w_duration_ms, sessionVars, pureVars>>

\* stream.next().await yields None: the rest of the buffer is parsed and the
\* adapter returns the accumulator, unless that last parse panics
StreamEnds ==
  /\ w_pc = "stream"
  /\ pos = Len(wire) \/ read_failed
  /\ w_locals' = OnStreamEnd(w_adapter, w_locals)
  /\ IF w_locals'.panicked
       THEN w_pc' = "panicked" /\ UNCHANGED <<w_result, request_body>>
       ELSE AdapterReturn([SuccessResult(w_locals'.full_content, NoneV)
                             EXCEPT !.duration_ms = Some(w_duration_ms)])
  /\ UNCHANGED <<w_adapter, w_is_streaming, answer, wire, pos, read_failed,
                 w_now, w_duration_ms, sessionVars, pureVars>>

NextAdapter ==
  \/ CallAdapter
  \/ TimePasses
  \/ SendFails
  \/ StatusError
  \/ ErrorBody
  \/ JsonBegins
  \/ JsonBody
  \/ StreamBegins
  \/ NextChunk
  \/ ReadError
  \/ StreamEnds

SpecAdapter == Init /\ [][NextAdapter]_vars

\* ============================================ the image preparer (image.rs)
\* process_image_for_api on its own. An input is described by what the code
\* looks at: whether its base64 text and its image data decode, its magic
\* bytes, its dimensions, the number of its bytes, and the two settings.
\* widths and heights of the decoded image
Dimensions == {1, 1920, 1921, 3840, 3841}

PrepInputs ==
  [decode : {"bad_base64", "unreadable", "undecodable", "ok"},
   magic : {"png", "jpeg", "gif", "webp", "other"},
   width : Dimensions,
   height : Dimensions,
   original_size : 1..(MaxBytes + 1),
   auto_compress : BOOLEAN,
   max_size_bytes : 0..MaxBytes]

\* What the encoders of the image crate do with the (resized) image: the size
\* of its PNG encoding, the JPEG qualities at which the encoding is one byte
\* long (at the others it is MaxBytes + 1 bytes; smaller below some quality,
\* or in no order at all), the attempts that fail, and which way resize
\* rounds a scaled dimension that lies halfway between two pixel counts.
JpegQualities == {90, 85, 80, 75, 70, 65, 60}
Encoders ==
  [png_size : {1, MaxBytes + 1},
   png_fails : BOOLEAN,
   jpeg_small : { {q \in JpegQualities : q <= t} : t \in JpegQualities \cup {55} }
                  \cup {{90}, {80, 70}},
   jpeg_fails : {{}, {75}},
   half_up : BOOLEAN]

\* the caller's base64 text, and BASE64.encode of an encoder's output
InputBase64 == <<"input_base64">>
Base64Of(attempt) == <<"encoded", attempt.format, attempt.quality, attempt.size>>

\* detect_mime_type, for data that starts with the magic bytes of `magic`
detect_mime_type(magic) ==
  CASE magic = "png" -> "image/png"
    [] magic = "jpeg" -> "image/jpeg"
    [] magic = "gif" -> "image/gif"
    [] magic = "webp" -> "image/webp"
    [] OTHER -> "image/jpeg"

\* mutant of JpegLoop: the quality goes down in steps of 10
RECURSIVE JpegLoop_StepTen(_, _, _, _)
JpegLoop_StepTen(enc, max_size_bytes, quality, attempts) ==
  LET a == [format |-> "jpeg", quality |-> quality,
            size |-> IF quality \in enc.jpeg_small THEN 1 ELSE MaxBytes + 1]
  IN IF quality \in enc.jpeg_fails
       THEN [attempts |-> Append(attempts, a), ret |-> Err("Failed to encode JPEG")]
     ELSE IF a.size <= max_size_bytes \/ quality <= 60
       THEN [attempts |-> Append(attempts, a), ret |-> Ok(<<a, "image/jpeg">>)]
     ELSE JpegLoop_StepTen(enc, max_size_bytes, quality - 10, Append(attempts, a))

\* mutant of JpegLoop: the quality floor is 50
RECURSIVE JpegLoop_Floor50(_, _, _, _)
JpegLoop_Floor50(enc, max_size_bytes, quality, attempts) ==
  LET a == [format |-> "jpeg", quality |-> quality,
            size |-> IF quality \in enc.jpeg_small THEN 1 ELSE MaxBytes + 1]
  IN IF quality \in enc.jpeg_fails
       THEN [attempts |-> Append(attempts, a), ret |-> Err("Failed to encode JPEG")]
     ELSE IF a.size <= max_size_bytes \/ quality <= 50
       THEN [attempts |-> Append(attempts, a), ret |-> Ok(<<a, "image/jpeg">>)]
     ELSE JpegLoop_Floor50(enc, max_size_bytes, quality - 5, Append(attempts, a))

\* the loop of compress_image from `quality` on; attempts is the list of
\* encodings made so far
RECURSIVE JpegLoop(_, _, _, _)
JpegLoop(enc, max_size_bytes, quality, attempts) ==
  LET a == [format |-> "jpeg", quality |-> quality,
            size |-> IF quality \in enc.jpeg_small THEN 1 ELSE MaxBytes + 1]
  IN IF quality \in enc.jpeg_fails
       THEN [attempts |-> Append(attempts, a), ret |-> Err("Failed to encode JPEG")]
     ELSE IF a.size <= max_size_bytes \/ quality <= 60
       THEN [attempts |-> Append(attempts, a), ret |-> Ok(<<a, "image/jpeg">>)]
     ELSE JpegLoop(enc, max_size_bytes, quality - 5, Append(attempts, a))

\* compress_image: PNG first, then JPEG from quality 90 downwards
compress_image(enc, max_size_bytes) ==
  LET a == [format |-> "png", quality |-> 0, size |-> enc.png_size]
  IN IF enc.png_fails
       THEN [attempts |-> <<a>>, ret |-> Err("Failed to encode PNG")]
     ELSE IF a.size <= max_size_bytes
       THEN [attempts |-> <<a>>, ret |-> Ok(<<a, "image/png">>)]
     ELSE JpegLoop(enc, max_size_bytes, 90, <<a>>)

\* let max_dimension: u32 = 1920
max_dimension == 1920

\* (num / den).round(), a tie going up or down as half_up says
Round(num, den, half_up) ==
  LET q == num \div den
      r == num % den
  IN IF 2 * r > den \/ (2 * r = den /\ half_up) THEN q + 1 ELSE q

\* max(n, 1)
AtLeastOne(n) == IF n >= 1 THEN n ELSE 1

\* mutant of resize_dimensions: the image is scaled to fill the bounds
resize_dimensions_Fill(width, height, nwidth, nheight, half_up) ==
  LET byWidth == nwidth * height >= nheight * width
      num == IF byWidth THEN nwidth ELSE nheight
      den == IF byWidth THEN width ELSE height
  IN [resized |-> TRUE,
      width |-> AtLeastOne(Round(width * num, den, half_up)),
      height |-> AtLeastOne(Round(height * num, den, half_up))]

\* img.resize(nwidth, nheight, filter): the image is scaled by the smaller of
\* nwidth / width and nheight / height, each dimension rounded and at least 1
resize_dimensions(width, height, nwidth, nheight, half_up) ==
  LET byWidth == nwidth * height <= nheight * width
      num == IF byWidth THEN nwidth ELSE nheight
      den == IF byWidth THEN width ELSE height
  IN [resized |-> TRUE,
      width |-> AtLeastOne(Round(width * num, den, half_up)),
      height |-> AtLeastOne(Round(height * num, den, half_up))]

\* mutant of needs_compress: an image of exactly the budget is compressed too
needs_compress_AtBudget(in) == in.original_size >= in.max_size_bytes

\* let needs_resize / let needs_compress
needs_resize(in) == in.width > 1920 \/ in.height > 1920
needs_compress(in) == in.original_size > in.max_size_bytes

\* process_image_for_api(input_base64, auto_compress, max_size_bytes): the
\* encodings it made, what it returned, and the image it handed to
\* compress_image (resized or not, and its dimensions)
process_image_for_api(in, enc) ==
  LET Returned(r) == [attempts |-> <<>>, ret |-> r, img |-> NoneV]
      img == IF needs_resize(in)
               THEN resize_dimensions(in.width, in.height, max_dimension,
                                      max_dimension, enc.half_up)
               ELSE [resized |-> FALSE, width |-> in.width, height |-> in.height]
      Unchanged(mime) ==
        Ok([base64 |-> InputBase64, mime_type |-> mime,
            original_size |-> in.original_size, compressed_size |-> NoneV,
            was_compressed |-> FALSE])
      compressed == compress_image(enc, in.max_size_bytes)
  IN IF in.decode = "bad_base64" THEN Returned(Err("Invalid base64"))
     ELSE IF ~in.auto_compress THEN Returned(Unchanged("image/jpeg"))
     ELSE IF in.decode = "unreadable" THEN Returned(Err("Failed to read image"))
     ELSE IF in.decode = "undecodable" THEN Returned(Err("Failed to decode image"))
     ELSE IF ~needs_resize(in) /\ ~needs_compress(in)
       THEN Returned(Unchanged(detect_mime_type(in.magic)))
     ELSE IF IsSome(compressed.ret.err)
       THEN [attempts |-> compressed.attempts, ret |-> Err(compressed.ret.err[1]),
             img |-> Some(img)]
     ELSE [attempts |-> compressed.attempts,
           img |-> Some(img),
           ret |-> Ok([base64 |-> Base64Of(compressed.ret.ok[1][1]),
                       mime_type |-> compressed.ret.ok[1][2],
                       original_size |-> in.original_size,
                       compressed_size |-> Some(compressed.ret.ok[1][1].size),
                       was_compressed |-> TRUE])]

\* one call of process_image_for_api
PrepareWith(in, enc) ==
  /\ p_input = NoneV
  /\ p_input' = Some(in)
  /\ \E r \in {process_image_for_api(in, enc)} :
       /\ p_attempts' = r.attempts
       /\ p_img' = r.img
       /\ p_result' = r.ret
  /\ UNCHANGED <<sessionVars, wireVars, maskVars, configVars>>

\* a call with whatever image and settings, the encoders doing whatever
Prepare ==
  /\ p_input = NoneV
  /\ \E in \in PrepInputs, enc \in Encoders : PrepareWith(in, enc)

SpecPrepare == Init /\ [][Prepare]_vars


\* ================================================ mask_api_key (crypto.rs)
\* An API key is a &str: UTF-8 bytes. Its characters are drawn from two
\* one-byte characters and the two-byte character Lead Cont.
KeyChars == {"a", "b", Lead \o Cont}
Keys == { Concat(cs) : cs \in UNION { [1..n -> KeyChars] : n \in 0..MaxKeyChars } }

\* "*".repeat(n)
RECURSIVE Stars(_)
Stars(n) == IF n = 0 THEN "" ELSE "*" \o Stars(n - 1)

\* str::is_char_boundary(idx): the start, the end, or a byte that is not a
\* continuation byte follows
is_char_boundary(str, idx) ==
  \/ idx = 0
  \/ idx = Len(str)
  \/ idx < Len(str) /\ SubSeq(str, idx + 1, idx + 1) # Cont

\* mask_api_key: len() counts bytes and the slices are byte ranges; slicing a
\* &str off a character boundary panics
mask_api_key(api_key) ==
  IF Len(api_key) <= 8 THEN Ok(Stars(Len(api_key)))
  ELSE IF ~is_char_boundary(api_key, 4) \/ ~is_char_boundary(api_key, Len(api_key) - 4)
    THEN Err("panic: byte index is not a char boundary")
  ELSE Ok(SubSeq(api_key, 1, 4) \o Stars(Len(api_key) - 8)
            \o SubSeq(api_key, Len(api_key) - 3, Len(api_key)))

\* one call of mask_api_key, with whatever key
MaskKey ==
  /\ m_key = NoneV
  /\ \E key \in Keys :
       /\ m_key' = Some(key)
       /\ m_masked' = mask_api_key(key)
  /\ UNCHANGED <<sessionVars, wireVars, prepVars, configVars>>

SpecMask == Init /\ [][MaskKey]_vars

\* ------------------------------------ the model_configs table (db/model_config.rs)
\* ids a call can name
ConfigIds == 1..MaxConfigs

\* a statement on the table failed (`?`)
ErrDb == "E_DB"

\* UPDATE model_configs SET is_default = 0
UnsetAll(rows) == [k \in DOMAIN rows |-> FALSE]

\* UPDATE model_configs SET is_default = 0 WHERE id != ?1
UnsetOthers(rows, id) == [k \in DOMAIN rows |-> k = id /\ rows[k]]

\* UPDATE model_configs SET is_default = ?v WHERE id = ?1
SetDefault(rows, id, v) == [k \in DOMAIN rows |-> IF k = id THEN v ELSE rows[k]]

\* what is unchanged by a call on the table
ConfigCallFrame == UNCHANGED <<sessionVars, wireVars, prepVars, maskVars>>

\* create_config(input): the row is inserted; when it is the default, the
\* others are unset. fails: the statement that fails, 0 for none
create_config(is_default) ==
  /\ c_call' = Some([op |-> "create_config", id |-> next_id])
  /\ next_id <= MaxConfigs
  /\ \E fails \in 0..(IF is_default THEN 2 ELSE 1) :
       LET inserted == [k \in DOMAIN configs \cup {next_id} |->
                          IF k = next_id THEN is_default ELSE configs[k]]
       IN /\ configs' = IF fails = 1 THEN configs
                         ELSE IF fails = 2 \/ ~is_default THEN inserted
                         ELSE UnsetOthers(inserted, next_id)
          /\ next_id' = IF fails = 1 THEN next_id ELSE next_id + 1
          /\ c_ret' = IF fails = 0 THEN Ok(next_id) ELSE Err(ErrDb)
  /\ ConfigCallFrame

\* update_config(id, input), as far as is_default goes: None for a missing
\* row; else the row's flag is set as given, and when it was set to true the
\* others are unset
update_config(id, is_default) ==
  /\ c_call' = Some([op |-> "update_config", id |-> id])
  /\ IF id \notin DOMAIN configs
       THEN c_ret' = Ok(NoneV) /\ UNCHANGED configs
       ELSE \E fails \in 0..(IF is_default = Some(TRUE) THEN 2 ELSE 1) :
              LET updated == IF IsSome(is_default)
                               THEN SetDefault(configs, id, is_default[1])
                               ELSE configs
              IN /\ configs' = IF fails = 1 THEN configs
                                ELSE IF fails = 2 \/ is_default # Some(TRUE)
                                  THEN updated
                                ELSE UnsetOthers(updated, id)
                 /\ c_ret' = IF fails = 0 THEN Ok(Some(id)) ELSE Err(ErrDb)
  /\ UNCHANGED next_id
  /\ ConfigCallFrame

\* delete_config(id): Ok(changes > 0)
delete_config(id) ==
  /\ c_call' = Some([op |-> "delete_config", id |-> id])
  /\ \E fails \in 0..1 :
       /\ configs' = IF fails = 1 THEN configs
                      ELSE [k \in DOMAIN configs \ {id} |-> configs[k]]
       /\ c_ret' = IF fails = 0 THEN Ok(id \in DOMAIN configs) ELSE Err(ErrDb)
  /\ UNCHANGED next_id
  /\ ConfigCallFrame

\* set_default_config(id): every row's flag is unset, then the flag of row id
\* is set; Ok(changes > 0) of the second statement
set_default_config(id) ==
  /\ c_call' = Some([op |-> "set_default_config", id |-> id])
  /\ \E fails \in 0..2 :
       /\ configs' = IF fails = 1 THEN configs
                      ELSE IF fails = 2 THEN UnsetAll(configs)
                      ELSE SetDefault(UnsetAll(configs), id, TRUE)
       /\ c_ret' = IF fails = 0 THEN Ok(id \in DOMAIN configs) ELSE Err(ErrDb)
  /\ UNCHANGED next_id
  /\ ConfigCallFrame

NextConfigs ==
  \/ \E is_default \in BOOLEAN : create_config(is_default)
  \/ \E id \in ConfigIds, is_default \in {NoneV, Some(TRUE), Some(FALSE)} :
       update_config(id, is_default)
  \/ \E id \in ConfigIds : delete_config(id)
  \/ \E id \in ConfigIds : set_default_config(id)

SpecConfigs == Init /\ [][NextConfigs]_vars


\* ================================================================ claims
\* a RecognitionResult is well formed: success goes with content and no
\* error, failure with an error and no content
WellFormed(r) ==
  /\ r.success => (IsSome(r.content) /\ ~IsSome(r.error))
  /\ ~r.success => (IsSome(r.error) /\ ~IsSome(r.content))

IsPrefix(s, t) == Len(s) <= Len(t) /\ SubSeq(t, 1, Len(s)) = s

\* C1: a cancel_recognition that runs while invocation i is active (spawned,
\* not yet returned; here even: its unit of work still unfinished) aborts the
\* unit of work of i, which is the one way for the pending recognize to
\* resolve with the cancellation result.
C1_CancelWhileActive ==
  [][\A i \in Inv :
       (cancel_recognition /\ Active(i) /\ tstate[i] \in Suspended)
         => abortReq'[i]]_vars

\* C2: a cancel_recognition that arrives while some invocation has spawned
\* its unit of work and not yet recorded the handle is not lost: it does not
\* fail with NoActiveRecognition.
C2_CancelBeforeRecord ==
  [][(cancel_recognition /\ slot = 0 /\ \E i \in Inv : pc[i] = "spawned")
       => cancelRet' = Ok("unit")]_vars

\* C3: cancel_recognition on an empty slot returns the NoActiveRecognition
\* error, calls abort on no task and leaves the slot empty.
C3_CancelOnEmptySlot ==
  [][(cancel_recognition /\ slot = 0)
       => (cancelRet' = Err(ErrNoActive) /\ abortReq' = abortReq /\ slot' = 0)]_vars

\* C3 witness: a cancel has been refused after an invocation has come and gone
C3_Witness ==
  /\ cancelRet = Err(ErrNoActive)
  /\ slot = 0
  /\ \A i \in Inv : ~abortReq[i] /\ ~Active(i)
  /\ \E i \in Inv : pc[i] = "returned" /\ IsSome(result[i].ok)

\* C4: every step by which an invocation that recorded a handle returns
\* clears the slot, whatever the outcome of the unit of work.
C4_ClearedBeforeReturn ==
  [][\A i \in Inv :
       (pc[i] \in {"awaiting", "joined"} /\ pc'[i] = "returned") => slot' = 0]_vars

\* C4 witness: one invocation has returned the task-fault error and another
\* the cancellation result, and the slot is empty
C4_Witness ==
  /\ slot = 0
  /\ \E i, j \in Inv :
       /\ pc[i] = "returned" /\ result[i] = Err(ErrTaskFailed)
       /\ pc[j] = "returned" /\ result[j] = Ok(CancelledResult)

\* C5: a handle is only ever recorded into an empty slot.
C5_RecordIntoEmptySlot ==
  [][\A i \in Inv :
       (pc[i] = "spawned" /\ pc'[i] = "awaiting") => slot = 0]_vars

\* C6: whenever an invocation has recorded its handle and its unit of work is
\* unfinished, the slot holds the handle of an unfinished unit of work.
C6_SlotTracksInFlight ==
  (\E i \in Inv : pc[i] = "awaiting" /\ tstate[i] \in Suspended)
    => (slot # 0 /\ tstate[slot] \in Suspended)

\* C7: the slot never holds the handle of an invocation that has returned,
\* and it is empty whenever no invocation is between spawn and return.
C7_NoDanglingHandle ==
  /\ \A i \in Inv : pc[i] = "returned" => slot # i
  /\ (\A i \in Inv : ~Active(i)) => slot = 0

\* C7 witness: every invocation has returned, one of them cancelled
C7_Witness ==
  /\ \A i \in Inv : pc[i] = "returned"
  /\ \A i \in Inv : IsSome(result[i].ok)
  /\ \E i \in Inv : result[i] = Ok(CancelledResult)

\* C8: once an invocation has resolved with the cancellation result no delta
\* is forwarded for it any more; forwarded deltas are never taken back. (The
\* only step excepted is the caller's next invocation, which starts a new
\* list of events.)
C8_NoDeltaAfterCancel ==
  [][\A i \in Inv :
       \/ RecognizeStart(i)
       \/ /\ IsPrefix(emitted[i], emitted'[i])
          /\ result[i] = Ok(CancelledResult) => emitted'[i] = emitted[i]]_vars

\* C8 witness: an invocation resolved cancelled after deltas were forwarded
C8_Witness ==
  \E i \in Inv : result[i] = Ok(CancelledResult) /\ Len(emitted[i]) = MaxDeltas

\* C9: when the unit of work has ended, the command's result is exactly one
\* of: the task's result, carrying the processed image iff compression
\* happened; the cancellation result with every optional field but the error
\* absent; the task-failed error.
C9_ThreeOutcomes ==
  \A i \in Inv : pc[i] = "joined" =>
    /\ tstate[i] = "done" =>
         /\ IsSome(result[i].ok)
         /\ [result[i].ok[1] EXCEPT !.processed_image = NoneV] = taskOut[i][1]
         /\ result[i].ok[1].processed_image =
              IF processed[i].was_compressed THEN Some(processed[i].base64) ELSE NoneV
         /\ result[i].ok[1].error # Some(ErrCancelled)
    /\ tstate[i] = "cancelled" =>
         /\ IsSome(result[i].ok)
         /\ result[i].ok[1].success = FALSE
         /\ result[i].ok[1].error = Some(ErrCancelled)
         /\ result[i].ok[1].content = NoneV
         /\ result[i].ok[1].tokens_used = NoneV
         /\ result[i].ok[1].duration_ms = NoneV
         /\ result[i].ok[1].processed_image = NoneV
    /\ tstate[i] = "panicked" => result[i] = Err(ErrTaskFailed)
    /\ result[i].err = Some(ErrTaskFailed) => tstate[i] = "panicked"

\* C9 witness: a completed result annotated with the processed image next to
\* a completed result without one
C9_Witness ==
  \E i, j \in Inv :
    /\ pc[i] = "joined" /\ tstate[i] = "done" /\ processed[i].was_compressed
    /\ result[i].ok[1].success
    /\ pc[j] = "joined" /\ tstate[j] = "done" /\ ~processed[j].was_compressed
    /\ result[j].ok[1].success

\* C10: every RecognitionResult a task finished with or a command returns is
\* well formed.
C10_ResultWellFormed ==
  \A i \in Inv :
    /\ IsSome(taskOut[i]) => WellFormed(taskOut[i][1])
    /\ IsSome(result[i].ok) => WellFormed(result[i].ok[1])

\* C10 witness: a streamed success with empty content next to an adapter failure
C10_Witness ==
  \E i, j \in Inv :
    /\ IsSome(result[i].ok) /\ result[i].ok[1].success
    /\ result[i].ok[1].content = Some("")
    /\ IsSome(result[j].ok) /\ result[j].ok[1].error = Some(ErrParse)

\* s contains sub as a substring
Contains(s, sub) ==
  \E k \in 1..(Len(s) + 1) :
    k + Len(sub) - 1 <= Len(s) /\ SubSeq(s, k, k + Len(sub) - 1) = sub

\* the first poll of task i returned r at once: no request was sent, no delta
\* forwarded and no history write attempted
ReturnedAtOnce(i, r) ==
  /\ tstate'[i] = "done"
  /\ taskOut'[i] = Some(r)
  /\ netCalls'[i] = 0
  /\ emitted'[i] = <<>>
  /\ histAttempts'[i] = 0
  /\ history'[i] = <<>>

\* C11: every recognize command that has returned delivered a structured
\* RecognitionResult (Ok), errors included; none came back on the command's
\* error channel.
C11_ErrorsAreStructured ==
  \A i \in Inv : pc[i] = "returned" => IsSome(result[i].ok)

\* C12: the unit of work of a recognize on an inactive configuration returns
\* the config-inactive failure at once, whatever the provider string of the
\* configuration: no request is sent, no delta forwarded, no history written.
C12_InactiveRejected ==
  [][\A i \in Inv, p \in Providers, stream \in BOOLEAN :
       TaskStartWith(i, [lookup |-> "found", is_active |-> FALSE, provider |-> p],
                     stream)
         => ReturnedAtOnce(i, FailResult(ErrConfigInactive, NoneV))]_vars

\* C12 witness: a command has returned the config-inactive failure
C12_Witness ==
  \E i \in Inv :
    /\ pc[i] = "returned" /\ IsSome(result[i].ok)
    /\ ~result[i].ok[1].success
    /\ result[i].ok[1].error = Some(ErrConfigInactive)
    /\ netCalls[i] = 0 /\ emitted[i] = <<>> /\ histAttempts[i] = 0

\* C13: a missing configuration gives the config-not-found failure and a
\* failing lookup a different one, the lookup failure; in both cases at once:
\* no request is sent, no delta forwarded, no history written.
C13_MissingAndLookupError ==
  [][\A i \in Inv, stream \in BOOLEAN :
       /\ TaskStartWith(i, [lookup |-> "missing", is_active |-> FALSE, provider |-> ""],
                        stream)
            => ReturnedAtOnce(i, FailResult(ErrConfigNotFound, NoneV))
       /\ TaskStartWith(i, [lookup |-> "error", is_active |-> FALSE, provider |-> ""],
                        stream)
            => /\ ReturnedAtOnce(i, FailResult(ErrConfigLookup, NoneV))
               /\ taskOut'[i] # Some(FailResult(ErrConfigNotFound, NoneV))]_vars

\* C13 witness: a command has returned the lookup failure
C13_Witness ==
  \E i \in Inv :
    /\ pc[i] = "returned" /\ IsSome(result[i].ok)
    /\ result[i].ok[1].error = Some(ErrConfigLookup)
    /\ netCalls[i] = 0 /\ emitted[i] = <<>> /\ histAttempts[i] = 0

\* C14: for an active configuration the provider string selects the adapter:
\* openai, azure, oneapi and custom the OpenAI-style one, anthropic the
\* Anthropic-style one (the request is sent by that adapter unless the image
\* is empty); any other string gives at once a failure whose message contains
\* the provider string, and no request is sent.
C14_AdapterSelection ==
  [][\A i \in Inv, p \in Providers, stream \in BOOLEAN :
       TaskStartWith(i, [lookup |-> "found", is_active |-> TRUE, provider |-> p], stream)
         => IF p \in {"openai", "azure", "oneapi", "custom", "anthropic"}
              THEN IF processed[i].base64 = ""
                     THEN ReturnedAtOnce(i, FailResult(ErrEmptyImage, NoneV))
                     ELSE /\ tstate'[i] = "send"
                          /\ netCalls'[i] = 1
                          /\ adapter'[i] =
                               IF p = "anthropic" THEN "anthropic" ELSE "openai"
              ELSE /\ ReturnedAtOnce(i, FailResult(ErrUnsupported(p), NoneV))
                   /\ Contains(taskOut'[i][1].error[1], p)]_vars

\* C14 witness: a command has returned the unsupported-provider failure that
\* names the provider "unsupported-x"
C14_Witness ==
  \E i \in Inv :
    /\ pc[i] = "returned" /\ IsSome(result[i].ok)
    /\ IsSome(result[i].ok[1].error)
    /\ Contains(result[i].ok[1].error[1], "unsupported-x")
    /\ netCalls[i] = 0

\* C15: a finished orchestrator call has attempted exactly one history write
\* if the result of the provider match is a success, and none otherwise
\* (failed result, early return); an unfinished or dropped one has attempted none.
C15_HistoryWriteIffSuccess ==
  \A i \in Inv :
    /\ tstate[i] = "done" =>
         histAttempts[i] =
           IF IsSome(adapterOut[i]) /\ adapterOut[i][1].success THEN 1 ELSE 0
    /\ tstate[i] \in Suspended \cup {"cancelled", "panicked"} => histAttempts[i] = 0

\* C15 witness: a finished call with a successful streamed result and its one
\* history row
C15_Witness ==
  \E i \in Inv :
    /\ tstate[i] = "done" /\ taskOut[i][1].success
    /\ Len(emitted[i]) = MaxDeltas
    /\ histAttempts[i] = 1 /\ Len(history[i]) = 1

\* C16: the orchestrator returns the result of the provider match unchanged,
\* whether the history insert succeeded or failed.
C16_HistoryFailureIgnored ==
  \A i \in Inv :
    (tstate[i] = "done" /\ IsSome(adapterOut[i])) => taskOut[i] = adapterOut[i]

\* C16 witness: the insert was attempted and failed, and the call finished
\* with the successful result
C16_Witness ==
  \E i \in Inv :
    /\ tstate[i] = "done" /\ taskOut[i][1].success
    /\ histAttempts[i] = 1 /\ history[i] = <<>>

\* a streaming call has returned after every byte of the response arrived
StreamedAll ==
  /\ w_pc = "returned"
  /\ w_is_streaming
  /\ IsSome(w_result) /\ w_result[1].success
  /\ ~read_failed

\* C17: for both adapters, a response byte stream delivered in any chunking
\* yields the same sequence of deltas and the same final content as the same
\* bytes delivered as a single chunk.
C17_ChunkingInvariance ==
  StreamedAll =>
    /\ w_locals.callbacks = OneChunk(w_adapter, wire).callbacks
    /\ w_result[1].content = Some(OneChunk(w_adapter, wire).full_content)

\* C18: for the same backend answer delivered once as a streaming response and
\* once as a non-streaming response, the streaming result's content (the
\* concatenation of the streamed deltas) equals the non-streaming result's
\* content, for each adapter and every answer text.
C18_StreamingEqualsNonStreaming ==
  StreamedAll =>
    w_result[1].content = Some(NonStreamContent(w_adapter, Concat(answer)))

\* the deltas of a sequence that carry text
NonEmptyDeltas(deltas) == SelectSeq(deltas, LAMBDA d : d # "")

\* C19: in the streaming path each text delta is forwarded to the delta
\* callback verbatim, exactly once and in the order its bytes arrived; at
\* every point the accumulator equals the concatenation of the deltas
\* forwarded so far; the final result's content is that accumulator.
C19_DeltasForwardedInOrder ==
  /\ w_locals.full_content = Concat(w_locals.callbacks)
  /\ IsPrefix(NonEmptyDeltas(w_locals.callbacks), NonEmptyDeltas(answer))
  /\ (w_pc = "returned" /\ w_is_streaming /\ w_result[1].success) =>
       w_result[1].content = Some(w_locals.full_content)
  /\ StreamedAll =>
       NonEmptyDeltas(w_locals.callbacks) = NonEmptyDeltas(answer)

\* C20: an adapter uses the streaming path if and only if options.stream is
\* true and a delta callback is supplied; in every other case the request is
\* sent as a non-streaming call (request body stream = false) and the response
\* is parsed as a single JSON document, whatever else the options contain.
C20_StreamingSelection ==
  [][/\ \A ad \in {"openai", "anthropic"}, options \in OptionsSet,
           has_callback \in BOOLEAN :
          CallAdapterWith(ad, "img", options, has_callback) =>
            /\ w_is_streaming' = (options.stream = Some(TRUE) /\ has_callback)
            /\ request_body'[1].stream = w_is_streaming'
     /\ StreamBegins => w_is_streaming
     /\ JsonBegins => ~w_is_streaming]_vars

\* ------------------------------------------------ claims on the image preparer
\* the larger of two numbers
Max(a, b) == IF a >= b THEN a ELSE b

\* process_image_for_api was called with a decodable image, auto-compress on
PreparedDecodable ==
  /\ IsSome(p_input)
  /\ p_input[1].decode = "ok"
  /\ p_input[1].auto_compress

\* C21: with auto-compress enabled, for every decodable input image with
\* originalSize <= maxBytes and max(width, height) <= 1920, prepare returns
\* wasCompressed = false, no compressed size, and a payload equal to the input.
C21_SmallImageUnchanged ==
  (/\ PreparedDecodable
   /\ p_input[1].original_size <= p_input[1].max_size_bytes
   /\ Max(p_input[1].width, p_input[1].height) <= 1920) =>
    /\ IsSome(p_result.ok)
    /\ p_result.ok[1].was_compressed = FALSE
    /\ p_result.ok[1].compressed_size = NoneV
    /\ p_result.ok[1].base64 = InputBase64

\* an image of exactly the budget, within the dimensions, came back unchanged
C21_Witness ==
  /\ PreparedDecodable
  /\ p_input[1].original_size = p_input[1].max_size_bytes
  /\ Max(p_input[1].width, p_input[1].height) <= 1920
  /\ IsSome(p_result.ok)
  /\ p_result.ok[1].base64 = InputBase64
  /\ p_attempts = <<>>

\* C22: for every ProcessedImage returned with wasCompressed = false, in the
\* auto-compress-disabled branch as well as in the nothing-to-do branch, the
\* payload equals the input unchanged and the media type is the one derived
\* from the input's magic bytes (PNG, JPEG, GIF, WEBP), not an assumed value.
C22_UnchangedKeepsSniffedType ==
  (/\ IsSome(p_input)
   /\ IsSome(p_result.ok)
   /\ ~p_result.ok[1].was_compressed) =>
    /\ p_result.ok[1].base64 = InputBase64
    /\ p_result.ok[1].mime_type = detect_mime_type(p_input[1].magic)

\* the errors of a failed encode
EncodeErrors == {"Failed to encode PNG", "Failed to encode JPEG"}

\* the re-encoding search bound and its outcome, for a bound of n attempts:
\* at most n encodings are made, and once the search has started an error
\* is the error of an encoder, never the budget's
SearchBounded(n) ==
  /\ Len(p_attempts) <= n
  /\ p_attempts # <<>> =>
       \/ IsSome(p_result.ok)
       \/ IsSome(p_result.err) /\ p_result.err[1] \in EncodeErrors

\* C23 (as stated): the re-encoding search terminates after at most 7 encode
\* attempts in total (the lossless PNG attempt and every JPEG attempt
\* counted) for every image and every byte budget, and it returns a result
\* rather than an error when no attempt meets the budget.
C23_AtMostSevenAttempts == SearchBounded(7)

\* C23 (amended): the re-encoding search terminates after at most 8 encode
\* attempts in total (the PNG attempt and at most seven JPEG attempts, at
\* qualities 90 to 60), and it returns a result rather than an error when no
\* attempt meets the budget.
C23_AtMostEightAttempts == SearchBounded(8)

\* all eight encodings were made, none within the budget, and a result came back
C23_Witness ==
  /\ PreparedDecodable
  /\ Len(p_attempts) = 8
  /\ \A k \in 1..8 : p_attempts[k].size > p_input[1].max_size_bytes
  /\ IsSome(p_result.ok)
  /\ p_result.ok[1].was_compressed

\* the encodings of the search, in its order: PNG, then JPEG by quality
EncodingSequence ==
  <<[format |-> "png", quality |-> 0], [format |-> "jpeg", quality |-> 90],
    [format |-> "jpeg", quality |-> 85], [format |-> "jpeg", quality |-> 80],
    [format |-> "jpeg", quality |-> 75], [format |-> "jpeg", quality |-> 70],
    [format |-> "jpeg", quality |-> 65], [format |-> "jpeg", quality |-> 60]>>

\* C24: for every decodable input exceeding the byte budget (auto-compress
\* on), prepare returns the first encoding in the sequence PNG, JPEG quality
\* 90, 85, 80, 75, 70, 65, 60 whose size is <= maxBytes, or the quality-60
\* JPEG if none fits; the output size is <= maxBytes or the quality is 60,
\* and quality never goes below 60. (An encoder that fails ends the search
\* with its error.)
C24_FirstFittingEncoding ==
  (/\ PreparedDecodable
   /\ p_input[1].original_size > p_input[1].max_size_bytes) =>
    LET n == Len(p_attempts)
        budget == p_input[1].max_size_bytes
    IN /\ n \in 1..Len(EncodingSequence)
       /\ \A k \in 1..n :
            /\ p_attempts[k].format = EncodingSequence[k].format
            /\ p_attempts[k].quality = EncodingSequence[k].quality
            /\ p_attempts[k].format = "jpeg" => p_attempts[k].quality >= 60
       /\ \A k \in 1..(n - 1) : p_attempts[k].size > budget
       /\ IF IsSome(p_result.ok)
            THEN /\ p_attempts[n].size <= budget \/ p_attempts[n].quality = 60
                 /\ p_result.ok[1].base64 = Base64Of(p_attempts[n])
                 /\ p_result.ok[1].compressed_size = Some(p_attempts[n].size)
                 /\ p_result.ok[1].mime_type = "image/" \o p_attempts[n].format
                 /\ p_result.ok[1].was_compressed
            ELSE IsSome(p_result.err) /\ p_result.err[1] \in EncodeErrors

\* PNG, JPEG 90 and JPEG 85 were over the budget and the JPEG of quality 80,
\* the first to fit, came back
C24_Witness ==
  /\ PreparedDecodable
  /\ p_input[1].original_size > p_input[1].max_size_bytes
  /\ Len(p_attempts) = 4
  /\ p_attempts[4].quality = 80
  /\ p_attempts[4].size <= p_input[1].max_size_bytes
  /\ IsSome(p_result.ok)
  /\ p_result.ok[1].base64 = Base64Of(p_attempts[4])

\* ------------------------------------------- claims on the adapters' results
\* C25: an adapter call with an empty image payload returns a populated error
\* result (success = false, error present, duration absent) without issuing
\* any network call and without invoking the delta callback.
C25_EmptyImageNoCall ==
  [][w_pc = "idle" =>
       \A ad \in {"openai", "anthropic"}, options \in OptionsSet,
          has_callback \in BOOLEAN :
         CallAdapterWith(ad, "", options, has_callback) =>
           /\ w_pc' = "returned"
           /\ IsSome(w_result')
           /\ ~w_result'[1].success
           /\ IsSome(w_result'[1].error)
           /\ w_result'[1].content = NoneV
           /\ w_result'[1].duration_ms = NoneV
           /\ request_body' = NoneV
           /\ w_locals'.callbacks = <<>>]_vars

\* an adapter was called with an empty image and has returned its error
C25_Witness ==
  /\ w_pc = "returned"
  /\ w_adapter = "none"
  /\ w_result = Some(FailResult(ErrEmptyImage, NoneV))
  /\ w_locals.callbacks = <<>>
  /\ w_now = 0

\* C26: every adapter outcome for which the network call was started
\* (success, streaming or not, response parse error, non-success HTTP status,
\* transport error) carries a durationMs value, and the empty-image outcome
\* (call never started) carries none.
C26_DurationIffCallStarted ==
  [][w_pc' = "returned" =>
       /\ w_pc \in {"send", "text", "json", "stream"} =>
            IsSome(w_result'[1].duration_ms)
       /\ w_pc = "idle" =>
            /\ w_result'[1].error = Some(ErrEmptyImage)
            /\ w_result'[1].duration_ms = NoneV]_vars

\* a response that could not be parsed was reported with its duration
C26_Witness ==
  /\ w_pc = "returned"
  /\ w_result[1].error = Some(ErrParse)
  /\ w_result[1].duration_ms = Some(w_duration_ms)

\* C27: the durationMs of an adapter result spans from just before the
\* network call to just before the adapter returns: the end of the interval
\* is measured after the response body (non-streaming) or the whole response
\* stream (streaming, every delta callback included) has been consumed.
C27_DurationUpToReturn ==
  (w_pc = "returned" /\ w_result[1].success) =>
    w_result[1].duration_ms = Some(w_now)

\* ---------------------------------------------- claims on cancel_recognition
\* C28: cancel_recognition returns without waiting for the cancelled unit of
\* work to unwind or for the pending recognize call to return: in every
\* state, whatever the unit of work is doing, the command can run, and its
\* one step returns its result and leaves the commands and the tasks where
\* they are.
C28_CancelNeverWaits ==
  /\ [](ENABLED cancel_recognition)
  /\ [][cancel_recognition =>
          /\ cancelRet' = CancelReturn(slot)
          /\ UNCHANGED <<pc, result, slot, tstate, taskOut>>]_vars

\* cancel_recognition has returned Ok while the task it aborted has not been
\* dropped yet and the recognize command is still waiting for it
C28_Witness ==
  /\ cancelRet = Ok("unit")
  /\ \E i \in Inv :
       /\ slot = i
       /\ abortReq[i]
       /\ tstate[i] \in Suspended
       /\ pc[i] = "awaiting"

\* ------------------------------------------------------ claims on mask_api_key
\* the characters of a string
RECURSIVE Chars(_)
Chars(str) ==
  IF str = "" THEN <<>>
  ELSE IF Len(str) >= 2 /\ SubSeq(str, 1, 2) = Lead \o Cont
    THEN <<Lead \o Cont>> \o Chars(From(str, 3))
  ELSE <<SubSeq(str, 1, 1)>> \o Chars(From(str, 2))

\* C29: mask_api_key preserves the key's length; a key of at most 8
\* characters is replaced entirely by '*', and a longer key keeps exactly its
\* first 4 and last 4 characters with every character in between replaced
\* by '*'.
C29_MaskKeepsEnds ==
  IsSome(m_key) =>
    /\ IsSome(m_masked.ok)
    /\ LET key == Chars(m_key[1])
           masked == Chars(m_masked.ok[1])
       IN /\ Len(masked) = Len(key)
          /\ \A k \in 1..Len(key) :
               masked[k] = IF Len(key) > 8 /\ (k <= 4 \/ k > Len(key) - 4)
                             THEN key[k] ELSE "*"

\* ------------------------------------------------ claims on the delta events
\* C30: in both adapters only non-empty text deltas count: an event whose
\* text delta is the empty string is neither appended to the accumulator nor
\* forwarded, so the delta callback is never invoked with an empty string.
C30_NoEmptyDeltaForwarded ==
  \A k \in 1..Len(w_locals.callbacks) : w_locals.callbacks[k] # ""

\* C31: after the stream ends, a remaining partial line in the carry-over
\* buffer gets exactly one parse attempt under the same rules as a complete
\* line: the step that ends the stream leaves the deltas and the accumulator
\* as the arrival of the missing newline would have, adds at most one delta,
\* and returns the accumulator when the call returns.
C31_RestOfBufferParsedOnce ==
  [][StreamEnds =>
       LET asLine == DrainLines(w_adapter, [w_locals EXCEPT !.buffer = @ \o NL])
       IN /\ w_locals'.callbacks = asLine.callbacks
          /\ w_locals'.full_content = asLine.full_content
          /\ Len(w_locals'.callbacks) <= Len(w_locals.callbacks) + 1
          /\ w_locals'.panicked = asLine.panicked
          /\ w_pc' = "returned" =>
               w_result'[1].content = Some(w_locals'.full_content)]_vars

\* a stream whose last line "lo" had no newline has ended; both deltas were
\* forwarded, once each
C31_Witness ==
  /\ StreamedAll
  /\ wire = "data: {Hel}" \o NL \o NL \o "data: {lo}"
  /\ w_locals.buffer = "data: {lo}"
  /\ w_locals.callbacks = <<"Hel", "lo">>
  /\ w_result[1].content = Some("Hello")

\* the deltas of an answer that the adapter forwards (call_openai leaves out
\* the empty ones)
Forwarded(ad, deltas) ==
  IF ad = "openai" THEN NonEmptyDeltas(deltas) ELSE deltas

\* C32: in the streaming path a line that fails JSON decoding or whose shape
\* does not match the expected event structure (a line without the "data: "
\* prefix included) is skipped: it does not fail the call, it emits no delta
\* (no more deltas are forwarded than the answer's delta events), and the
\* other lines are processed as without it (a stream that was read to its
\* end forwarded one delta for each of the answer's delta events).
C32_UnshapedLinesSkipped ==
  /\ w_pc # "panicked"
  /\ Len(w_locals.callbacks) <= Len(Forwarded(w_adapter, answer))
  /\ StreamedAll =>
       Len(w_locals.callbacks) = Len(Forwarded(w_adapter, answer))

\* a text with every byte of a multi-byte character, decoded or replaced,
\* made the same: texts equal under Blur differ by the decoding of split
\* characters only
RECURSIVE Blur(_)
Blur(str) ==
  IF str = "" THEN ""
  ELSE (IF SubSeq(str, 1, 1) \in {Lead, Cont, Repl} THEN Repl ELSE SubSeq(str, 1, 1))
         \o Blur(From(str, 2))

BlurAll(deltas) == [k \in 1..Len(deltas) |-> Blur(deltas[k])]

C34_ExtraParamsInBody ==
  [][w_pc = "idle" =>
       \A ad \in {"openai", "anthropic"}, options \in OptionsSet,
          has_callback \in BOOLEAN :
         (CallAdapterWith(ad, "img", options, has_callback)
            /\ IsSome(options.custom_params)) =>
           \A key \in DOMAIN options.custom_params[1] :
             /\ key \in DOMAIN request_body'[1]
             /\ request_body'[1][key] = options.custom_params[1][key]]_vars

\* C38: in the streaming path of either adapter, once a success HTTP status
\* has been received the call always returns success with content equal to
\* the deltas accumulated so far: the loop over the stream is left only by
\* that return, after a failed read of a chunk included, never with a
\* reported error or without a result.
C38_StreamingAlwaysSucceeds ==
  [][(w_pc = "stream" /\ w_pc' # "stream") =>
       /\ w_pc' = "returned"
       /\ IsSome(w_result')
       /\ w_result'[1].success
       /\ w_result'[1].error = NoneV
       /\ w_result'[1].content = Some(Concat(w_locals'.callbacks))]_vars

\* the data URI of the image a request carried
SentUri(sent) == DataUri(sent.media_type, sent.data)

\* C35: the thumbnail stored in the history entry is the data URI of exactly
\* the image bytes and media type that were sent to the provider (the Image
\* Preparer's output), never the caller's original pre-compression bytes, for
\* every recognize command that ends successfully.
C35_ThumbnailIsImageSent ==
  \A i \in Inv :
    \A k \in 1..Len(history[i]) :
      /\ IsSome(sentImage[i])
      /\ history[i][k].image_thumbnail = SentUri(sentImage[i][1])
      /\ pc[i] \in {"spawned", "awaiting", "joined"} =>
           history[i][k].image_thumbnail
             = DataUri(processed[i].mime_type, processed[i].base64)

\* a recognize of a compressed image has ended successfully and its history
\* entry holds the compressed image that was sent
C35_Witness ==
  \E i \in Inv :
    /\ pc[i] = "returned"
    /\ IsSome(result[i].ok) /\ result[i].ok[1].success
    /\ sentImage[i] = Some([media_type |-> "image/jpeg", data |-> "comp"])
    /\ Len(history[i]) = 1
    /\ history[i][1].image_thumbnail = "data:image/jpeg;base64,comp"

\* C37: a recognize invocation that resolves with the cancellation marker has
\* written no history entry: an abort takes effect only on a task that is at
\* a suspension point, and the history write is made in the step in which
\* the adapter returns, with no suspension point in between.
C37_CancelledWritesNoHistory ==
  [][\A i \in Inv :
       /\ result'[i] = Ok(CancelledResult) =>
            history'[i] = <<>> /\ histAttempts'[i] = 0
       /\ (tstate'[i] = "cancelled" /\ tstate[i] # "cancelled") =>
            tstate[i] \in Suspended /\ histAttempts[i] = 0
       /\ histAttempts'[i] > histAttempts[i] =>
            /\ tstate[i] \in Suspended
            /\ tstate'[i] = "done"
            /\ adapterOut[i] = NoResult /\ IsSome(adapterOut'[i])]_vars

\* a recognize whose request had been sent resolved with the cancellation
\* marker
C37_Witness ==
  \E i \in Inv :
    /\ pc[i] = "returned"
    /\ result[i] = Ok(CancelledResult)
    /\ netCalls[i] = 1
    /\ history[i] = <<>>

\* C39: a recognize command that fails while reading settings or while
\* preparing the image returns its error without starting any unit of work,
\* without any network call or delta, and leaves the session slot exactly as
\* it was: a handle recorded by another in-flight invocation is neither
\* overwritten nor cleared, and that invocation goes on undisturbed.
C39_EarlyFailureTouchesNothing ==
  [][\A i \in Inv :
       (RecognizeStart(i) /\ pc'[i] = "returned") =>
         /\ result'[i] \in {Err(ErrSettings), Err(ErrImage)}
         /\ slot' = slot
         /\ tstate' = tstate /\ tstate'[i] \notin Suspended
         /\ netCalls'[i] = 0 /\ emitted'[i] = <<>> /\ history'[i] = <<>>
         /\ abortReq' = abortReq
         /\ \A j \in Inv \ {i} :
              /\ pc'[j] = pc[j] /\ result'[j] = result[j]
              /\ netCalls'[j] = netCalls[j] /\ emitted'[j] = emitted[j]]_vars

\* a recognize failed on its image while the slot held the handle of another
\* invocation that is still in flight
C39_Witness ==
  \E i \in Inv, j \in Inv :
    /\ i # j
    /\ pc[i] = "returned" /\ result[i] = Err(ErrImage)
    /\ tstate[i] = "none"
    /\ slot = j /\ pc[j] = "awaiting" /\ tstate[j] = "stream"

\* C36: with auto-compress on, a resize happens if and only if
\* max(width, height) > 1920, and it happens before any encode attempt (the
\* image the encoders got is the resized one); the resized image has neither
\* dimension above 1920, neither dimension larger than the original, and the
\* original aspect ratio within rounding (each dimension less than one pixel
\* off the original scaled by 1920 / max(width, height)).
C36_ResizeIffTooLarge ==
  PreparedDecodable =>
    LET in == p_input[1]
        longest == Max(in.width, in.height)
    IN /\ (IsSome(p_img) /\ p_img[1].resized) <=> longest > 1920
       /\ p_attempts # <<>> => IsSome(p_img)
       /\ IsSome(p_img) =>
            IF p_img[1].resized
              THEN /\ p_img[1].width <= 1920 /\ p_img[1].height <= 1920
                   /\ p_img[1].width <= in.width /\ p_img[1].height <= in.height
                   /\ p_img[1].width >= 1 /\ p_img[1].height >= 1
                   /\ p_img[1].width * longest - in.width * 1920 \in
                        (1 - longest)..(longest - 1)
                   /\ p_img[1].height * longest - in.height * 1920 \in
                        (1 - longest)..(longest - 1)
              ELSE p_img[1].width = in.width /\ p_img[1].height = in.height

\* an image of 3840 x 1921 pixels within the size budget was resized to
\* 1920 x 961 (or 960) and then encoded
C36_Witness ==
  /\ PreparedDecodable
  /\ p_input[1].width = 3840 /\ p_input[1].height = 1921
  /\ p_input[1].original_size <= p_input[1].max_size_bytes
  /\ IsSome(p_img) /\ p_img[1].resized
  /\ p_img[1].width = 1920 /\ p_img[1].height \in {960, 961}
  /\ p_attempts # <<>>

\* ------------------------------------------- claims on the stored configurations
\* the ids of the rows that are the default
Defaults(rows) == {k \in DOMAIN rows : rows[k]}

\* C40: set_default_config(id) that reports failure (returns false because no
\* configuration has that id) leaves the stored configurations unchanged: the
\* configuration that was the default before the call is still the default
\* afterwards.
C40_FailedSetDefaultKeepsDefault ==
  [][\A id \in ConfigIds :
       (set_default_config(id) /\ c_ret' = Ok(FALSE)) =>
         /\ configs' = configs
         /\ Defaults(configs') = Defaults(configs)]_vars

====
